---- MODULE Spec2Model ----
(***************************************************************************)
(* A model of pysimpleapp's threads: SimpleThread and its four subclasses  *)
(* (threads/simple_threads.py) and the ThreadManager                       *)
(* (threads/thread_manager.py).                                            *)
(*                                                                         *)
(* A message is the record Message(sender, receiver, command, package) the *)
(* thread code constructs and reads.  Paths are sequences of names; a bare *)
(* name used as an address ("X") is written as the one-element path <<X>>. *)
(* Every thread-state variable is a function over the names in Threads;    *)
(* pc[t] is the position of thread t in its run() method.                  *)
(***************************************************************************)
EXTENDS Integers, Sequences, FiniteSets, TLC

\* ------------------------------------------------------------------ bounds
\* Messages the environment enqueues into the standalone worker's queue.
MaxSend == 4
\* Executions of main after which no further deferred self-start fires.
MaxRuns == 2
\* Messages the environment enqueues into the manager's queue.
MaxManagerSend == 4
\* The environment waits while the manager's queue holds this many messages.
MaxQueue == 2

\* Update commands the environment enqueues into the standalone worker's queue.
MaxUpdates == 3
\* The longest delay between the moment a run is due and the moment
\* _control_loop reads the clock, in time units.
MaxLate == 1
\* The longest execution of main, in time units.
MaxWork == 1

\* The time unit is 50 ms.  loop_timer of the repeating test: 200 ms.
LoopTimer == 4
\* The repeating test sleeps 700 ms between start and end.
WaitTime == 14

\* ------------------------------------------------------------------- names
WName == "W"
ManagerName == "TM"
OwnerName == "Owner"
ChildNames == {"X", "Y"}
Threads == {WName, ManagerName} \cup ChildNames

SingleRun == "SingleRunThread"
MultiRun == "MultiRunThread"
Repeating == "RepeatingThread"
Precise == "PreciseRepeatingThread"
Manager == "ThreadManager"
WorkerKinds == {SingleRun, MultiRun, Repeating, Precise}

TypeIds == {"single", "multi", "repeat"}

Channels == {"qa", "qb"}
ResultEndpoint == "result"
NotResultEndpoint == "not_result"
Endpoints == {ResultEndpoint, NotResultEndpoint}

VARIABLES
  kind,
  pc,
  input_queue,
  start_flag,
  stop_flag,
  end_flag,
  timers,
  runs,
  raised,
  subscriptions,
  chan,
  thread_types,
  active_threads,
  destroyed_threads,
  output_queue,
  created,
  owner,
  log,
  sent,
  hist,
  parameters,
  new_predictions_flag,
  main_runs,
  started_time,
  now,
  deadline,
  main_start_time,
  main_finish_time,
  alternating,
  result,
  built

vars == <<kind, pc, input_queue, start_flag, stop_flag, end_flag, timers, runs,
          raised, subscriptions, chan, thread_types, active_threads,
          destroyed_threads, output_queue, created, owner, log, sent, hist,
          parameters, new_predictions_flag, main_runs, started_time, now, deadline,
          main_start_time, main_finish_time, alternating, result, built>>

\* alternating[t]: main of t is the one of ExampleAlternatingThread (otherwise
\* it counts its runs and publishes the count); result[t] is its self.result.
exampleVars == <<alternating, result>>

\* The attributes PreciseRepeatingThread adds for its predictions.
preciseVars == <<new_predictions_flag, main_runs, started_time>>

\* The clock (time.time()), per thread the moment its current Timer expires
\* and the two readings of the clock _control_loop takes around main.  Only
\* the timed specification lets time pass.
clockVars == <<now, deadline, main_start_time, main_finish_time>>

managerVars == <<thread_types, active_threads, destroyed_threads, output_queue, created>>

\* ---------------------------------------------------------------- messages
Message(s, r, c, p) == [sender |-> s, receiver |-> r, command |-> c, package |-> p]

None == <<>>

\* is_alive(): the thread object exists and run() has neither returned nor died.
IsAlive(t) == pc[t] \notin {"absent", "done", "dead"}

\* ------------------------------------------------------------ dispatch table
BaseAddressBook == {"THREAD_START", "THREAD_STOP", "THREAD_END", "THREAD_UPDATE", "THEAD_HANDLE"}

ManagerAddressBook == {"NEW_THREAD", "SET_THREAD_TYPES", "DESTROY_THREAD", "ACTIVE_THREADS"}

\* THREAD_SUBSCRIBE is declared in message.py; its handler is not in the thread sources.
SubscribeCommands == {"THREAD_SUBSCRIBE"}

AddressBook(k) ==
  BaseAddressBook
    \cup (IF k \in {Repeating, Precise} THEN {"THREAD_REPEAT"} ELSE {})
    \cup (IF k = Precise THEN {"SET_LOOP_TIMER"} ELSE {})
    \cup (IF k = Manager THEN ManagerAddressBook ELSE {})
    \cup (IF k \in WorkerKinds THEN SubscribeCommands ELSE {})

\* SimpleThread._message_handle: the sanity check on the receiver.
Accepts(t, m) == m.receiver = <<t>>

\* The message reaches a handler of the address book.
Dispatched(t, m) == Accepts(t, m) /\ m.command \in AddressBook(kind[t])

\* custom_handler is the user's: the package of a THEAD_HANDLE message says
\* what the handler does with it, "no" (returns), "KeyError" or "other" (the
\* exception it raises).
CustomRaises(t, m) ==
  IF Dispatched(t, m) /\ m.command = "THEAD_HANDLE" THEN m.package.raises ELSE "no"

\* _message_handle catches KeyError only: any other exception of the handler
\* leaves _message_handle and run().
CustomCrashes(t, m) == CustomRaises(t, m) = "other"

\* What SimpleThread._message_handle writes to the error log: a message for
\* somebody else, or a command that is not in the address book (a KeyError of
\* the handler itself is taken for one).
LogAfter(t, m) ==
  IF ~Accepts(t, m) THEN "receiver"
  ELSE IF m.command \notin AddressBook(kind[t]) THEN "command"
  ELSE IF CustomRaises(t, m) = "KeyError" THEN "command"
  ELSE ""

\* ------------------------------------------------------------------ timers
\* timers[t] lists the Timer objects of thread t that still matter, oldest
\* first; self.repeat_timer is the last one.  "pending": started, waiting;
\* "set": PreciseRepeatingThread.repeating_start has raised the start flag and
\* not yet put its message; "fired": the function ran; "cancelled".
CancelTimer(ts) ==
  IF ts = <<>> THEN ts
  ELSE [ts EXCEPT ![Len(ts)] = IF @ = "pending" THEN "cancelled" ELSE @]

Outstanding(ts) == SelectSeq(ts, LAMBDA s : s \in {"pending", "set"})

StartTimer(ts) == Append(Outstanding(ts), "pending")

\* --------------------------------------------------------------- handlers
\* Which commands raise the start flag: _thread_start everywhere,
\* RepeatingThread._thread_repeat (PreciseRepeatingThread overrides it by pass).
StartSetters(k) ==
  {"THREAD_START"} \cup (IF k = Repeating THEN {"THREAD_REPEAT"} ELSE {})

StartAfter(t, m) ==
  IF Dispatched(t, m) /\ m.command \in StartSetters(kind[t]) THEN TRUE ELSE start_flag[t]

StopAfterMutNoClear(t, m) ==
  IF Dispatched(t, m) /\ m.command = "THREAD_STOP" THEN TRUE ELSE stop_flag[t]

\* _thread_stop sets the stop flag; RepeatingThread._thread_start clears it.
StopAfter(t, m) ==
  IF ~Dispatched(t, m) THEN stop_flag[t]
  ELSE IF m.command = "THREAD_STOP" THEN TRUE
  ELSE IF m.command = "THREAD_START" /\ kind[t] \in {Repeating, Precise} THEN FALSE
  ELSE stop_flag[t]

ThreadEndMutNoFlag(e) == e

\* SimpleThread._thread_end
ThreadEnd(e) == TRUE

EndAfterMutUnknownEnds(t, m) ==
  IF Accepts(t, m) /\ (m.command = "THREAD_END" \/ m.command \notin AddressBook(kind[t]))
  THEN TRUE
  ELSE end_flag[t]

EndAfter(t, m) ==
  IF Dispatched(t, m) /\ m.command = "THREAD_END" THEN ThreadEnd(end_flag[t]) ELSE end_flag[t]

\* RepeatingThread._thread_start and _thread_stop cancel the current timer.
TimersAfter(t, m) ==
  IF Dispatched(t, m) /\ kind[t] \in {Repeating, Precise}
       /\ m.command \in {"THREAD_START", "THREAD_STOP"}
  THEN CancelTimer(timers[t])
  ELSE timers[t]

\* Subscribe handler: the package names an endpoint and a channel; the channel
\* joins the endpoint's subscribers.
SubscriptionsAfter(t, m) ==
  IF Dispatched(t, m) /\ m.command \in SubscribeCommands /\ Len(m.package) = 2
  THEN [subscriptions[t] EXCEPT ![m.package[1]] = @ \cup {m.package[2]}]
  ELSE subscriptions[t]

\* publish(payload, endpoint): one message per channel subscribed to endpoint,
\* ch being the channels' contents before.
PublishOn(ch, t, payload, endpoint) ==
  [q \in Channels |->
     IF q \in subscriptions[t][endpoint] THEN Append(ch[q], payload) ELSE ch[q]]

Publish(t, payload, endpoint) == PublishOn(chan, t, payload, endpoint)

MainPublishMutTwice(t) ==
  IF alternating[t]
  THEN PublishOn(PublishOn(chan, t, result[t], ResultEndpoint), t, ~result[t], NotResultEndpoint)
  ELSE PublishOn(Publish(t, runs[t] + 1, ResultEndpoint), t, runs[t] + 1, ResultEndpoint)

MainPublishMutSameEndpoint(t) ==
  IF alternating[t]
  THEN PublishOn(PublishOn(chan, t, result[t], ResultEndpoint), t, ~result[t], ResultEndpoint)
  ELSE Publish(t, runs[t] + 1, ResultEndpoint)

\* main of the example threads: ExampleAlternatingThread publishes self.result
\* to RESULT and its negation to NOT_RESULT; the others publish times_ran.
MainPublish(t) ==
  IF alternating[t]
  THEN PublishOn(PublishOn(chan, t, result[t], ResultEndpoint), t, ~result[t], NotResultEndpoint)
  ELSE Publish(t, runs[t] + 1, ResultEndpoint)

\* ExampleAlternatingThread.main: "self.result = not (self.result)"
ResultAfterMain(t) == IF alternating[t] THEN ~result[t] ELSE result[t]

\* ------------------------------------------------------------- parameters
\* self.parameters after the constructor: create_params gives the parameter of
\* its docstring's example, RepeatingThread.__init__ adds loop_timer = 1; the
\* ThreadManager creates none.
InitParameters(k) ==
  IF k \in {Repeating, Precise}
  THEN [key \in {"param 1", "loop_timer"} |-> IF key = "loop_timer" THEN 1 ELSE 0]
  ELSE IF k \in {SingleRun, MultiRun} THEN [key \in {"param 1"} |-> 0]
  ELSE <<>>

\* What the constructor of class k does after SimpleThread.__init__ has
\* returned, statement by statement: the attribute, parameter or address-book
\* entry each one creates.  built[t] counts the statements done for thread t.
InitStatements(k) ==
  IF k = Repeating THEN <<"loop_timer", "THREAD_REPEAT", "repeat_timer">>
  ELSE IF k = Precise
  THEN <<"loop_timer", "THREAD_REPEAT", "repeat_timer",
         "started_time", "main_runs", "new_predictions_flag", "SET_LOOP_TIMER">>
  ELSE IF k = Manager
  THEN <<"thread_types", "active_threads", "destroyed_threads",
         "NEW_THREAD", "SET_THREAD_TYPES", "DESTROY_THREAD", "ACTIVE_THREADS">>
  ELSE <<>>

Complete(k) == Len(InitStatements(k))

\* Thread t has the attribute, parameter or address-book entry a.
Has(t, a) == \E i \in 1..built[t] : InitStatements(kind[t])[i] = a

\* self.parameters when n statements of the subclass constructor are done.
ParametersBuilt(k, n) ==
  IF k \in {Repeating, Precise} /\ n < 1
  THEN [key \in {"param 1"} |-> 0]
  ELSE InitParameters(k)

\* A package that is a dictionary is written Dict(f); None is not one.
Dict(f) == [dict |-> f]

\* "type(new_params) == dict"
IsDict(p) == DOMAIN p = {"dict"}

UpdateParamsMutAddsKeys(old, new) ==
  [key \in (DOMAIN old) \cup (DOMAIN new) |-> IF key \in DOMAIN new THEN new[key] ELSE old[key]]

\* _update_params, the loop: "if key in self.parameters.keys():
\* self.parameters[key] = value", any other key is logged and skipped.
UpdateParams(old, new) ==
  [key \in DOMAIN old |-> IF key \in DOMAIN new THEN new[key] ELSE old[key]]

\* set_loop_timer accepts a dictionary that has the key loop_timer.
LoopTimerAccepted(t, m) ==
  /\ Dispatched(t, m)
  /\ m.command = "SET_LOOP_TIMER"
  /\ IsDict(m.package)
  /\ "loop_timer" \in DOMAIN m.package.dict

\* _update_params with a package that is no dictionary logs an error and then
\* calls new_params.items(): the AttributeError leaves _message_handle and run().
UpdateCrashes(t, m) ==
  Dispatched(t, m) /\ m.command = "THREAD_UPDATE" /\ ~IsDict(m.package)

\* An exception of a handler that _message_handle does not catch.
HandlerEscapes(t, m) == UpdateCrashes(t, m) \/ CustomCrashes(t, m)

ParametersAfter(t, m) ==
  IF (Dispatched(t, m) /\ m.command = "THREAD_UPDATE" /\ IsDict(m.package))
       \/ LoopTimerAccepted(t, m)
  THEN UpdateParams(parameters[t], m.package.dict)
  ELSE parameters[t]

NewPredictionsAfterMutStartOnly(t, m) ==
  IF kind[t] = Precise /\ Dispatched(t, m) /\ m.command = "THREAD_START"
  THEN TRUE
  ELSE new_predictions_flag[t]

\* PreciseRepeatingThread._thread_start and set_loop_timer raise the flag.
NewPredictionsAfter(t, m) ==
  IF kind[t] = Precise
       /\ ((Dispatched(t, m) /\ m.command = "THREAD_START") \/ LoopTimerAccepted(t, m))
  THEN TRUE
  ELSE new_predictions_flag[t]

RunContinuesMutForever(e) == TRUE

\* run(): "while self.end_flag.is_set() is False"
RunContinues(e) == ~e

EndAfterControlLoopMutNever(k, e) == e

EndAfterControlLoopMutAlways(k, e) == TRUE

EndAfterRaiseMutLogsOnly(e) == e

\* SimpleThread.run, "except Exception": the error is logged and the end flag
\* is set.
EndAfterRaise(e) == TRUE

\* The end flag when _control_loop returns normally: SingleRunThread sets it.
EndAfterControlLoop(k, e) == IF k = SingleRun THEN TRUE ELSE e

\* ------------------------------------------------------------------- history
\* hist records, for the standalone worker W, what the environment enqueued
\* and what W dispatched (observation only; no action reads it).
HistInit ==
  [startsBeforeEnd |-> 0, startEnqueued |-> FALSE, endEnqueued |-> FALSE,
   endFirst |-> FALSE, subEarly |-> {}, startsHandled |-> 0, stopped |-> FALSE,
   subEarlyAt |-> {}, startedWithQueue |-> FALSE]

HistPut(m) ==
  IF m.receiver # <<WName>> THEN hist
  ELSE IF m.command = "THREAD_START"
    THEN [hist EXCEPT !.startEnqueued = TRUE,
                      !.startsBeforeEnd = IF hist.endEnqueued THEN @ ELSE @ + 1]
  ELSE IF m.command = "THREAD_END"
    THEN [hist EXCEPT !.endEnqueued = TRUE,
                      !.endFirst = IF hist.endEnqueued THEN @ ELSE ~hist.startEnqueued]
  ELSE IF m.command \in SubscribeCommands /\ ~hist.startEnqueued /\ ~hist.endEnqueued
    THEN [hist EXCEPT !.subEarly = @ \cup {m.package[2]},
                      !.subEarlyAt = @ \cup {m.package}]
  ELSE hist

\* stopped: a repeating W has dispatched a stop command and no start since.
HistGet(t, m) ==
  IF t = WName /\ Dispatched(t, m) /\ m.command = "THREAD_START"
  THEN [hist EXCEPT !.startsHandled = @ + 1, !.stopped = FALSE,
                    !.startedWithQueue = FALSE]
  ELSE IF t = WName /\ Dispatched(t, m) /\ m.command = "THREAD_STOP"
            /\ kind[t] \in {Repeating, Precise}
  THEN [hist EXCEPT !.stopped = TRUE, !.startedWithQueue = FALSE]
  ELSE IF t = WName
  THEN [hist EXCEPT !.startedWithQueue = FALSE]
  ELSE hist

\* startedWithQueue: at its last test at the top of the loop W's run() found
\* its start flag raised while a message was waiting in input_queue, and W
\* has taken no message since.
HistCheck(t) ==
  IF t = WName
  THEN [hist EXCEPT !.startedWithQueue =
          RunContinues(end_flag[t]) /\ start_flag[t] /\ input_queue[t] # <<>>]
  ELSE hist

\* ------------------------------------------------------------------- states
TypeOK ==
  /\ kind \in [Threads -> WorkerKinds \cup {Manager, "none"}]
  /\ pc \in [Threads -> {"absent", "check", "get", "loop", "ending", "done", "dead"}]
  /\ start_flag \in [Threads -> BOOLEAN]
  /\ stop_flag \in [Threads -> BOOLEAN]
  /\ end_flag \in [Threads -> BOOLEAN]
  /\ runs \in [Threads -> Nat]
  /\ raised \in [Threads -> BOOLEAN]
  /\ destroyed_threads \subseteq ChildNames
  /\ DOMAIN active_threads \subseteq ChildNames
  /\ DOMAIN thread_types \subseteq TypeIds
  /\ sent \in Nat
  /\ \A t \in Threads : DOMAIN parameters[t] \subseteq {"param 1", "loop_timer"}
  /\ new_predictions_flag \in [Threads -> BOOLEAN]
  /\ main_runs \in [Threads -> Nat]
  /\ started_time \in [Threads -> Nat]
  /\ now \in Nat
  /\ deadline \in [Threads -> Nat]
  /\ main_start_time \in [Threads -> Nat]
  /\ main_finish_time \in [Threads -> Nat]
  /\ alternating \in [Threads -> BOOLEAN]
  /\ result \in [Threads -> BOOLEAN]
  /\ built \in [Threads -> Nat]

\* A thread object right after its constructor: flags clear, no timer, the
\* thread started and inside run().
InitObjects(k, b) ==
  /\ kind = [t \in Threads |-> k[t]]
  /\ pc = [t \in Threads |->
             IF k[t] = "none" THEN "absent" ELSE IF k[t] = Precise THEN "check" ELSE "get"]
  /\ input_queue = [t \in Threads |-> <<>>]
  /\ start_flag = [t \in Threads |-> FALSE]
  /\ stop_flag = [t \in Threads |-> FALSE]
  /\ end_flag = [t \in Threads |-> FALSE]
  /\ timers = [t \in Threads |-> <<>>]
  /\ runs = [t \in Threads |-> 0]
  /\ raised = [t \in Threads |-> FALSE]
  /\ subscriptions = [t \in Threads |-> [e \in Endpoints |-> {}]]
  /\ chan = [q \in Channels |-> <<>>]
  /\ log = [t \in Threads |-> ""]
  /\ sent = 0
  /\ hist = HistInit
  /\ parameters = [t \in Threads |-> ParametersBuilt(k[t], b[t])]
  /\ built = [t \in Threads |-> b[t]]
  /\ new_predictions_flag = [t \in Threads |-> FALSE]
  /\ main_runs = [t \in Threads |-> 0]
  /\ started_time = [t \in Threads |-> 0]
  /\ now = 0
  /\ deadline = [t \in Threads |-> 0]
  /\ main_start_time = [t \in Threads |-> 0]
  /\ main_finish_time = [t \in Threads |-> 0]
  /\ result = [t \in Threads |-> TRUE]

\* Every constructor has returned.
InitThreads(k) == InitObjects(k, [t \in Threads |-> Complete(k[t])])

InitManagerIdle ==
  /\ thread_types = <<>>
  /\ active_threads = <<>>
  /\ destroyed_threads = {}
  /\ output_queue = <<>>
  /\ created = [c \in ChildNames |-> 0]

\* One standalone worker W of any of the four classes.
InitWorker ==
  /\ \E k \in WorkerKinds :
       InitThreads([t \in Threads |-> IF t = WName THEN k ELSE "none"])
  /\ alternating = [t \in Threads |-> FALSE]
  /\ owner = [t \in Threads |-> OwnerName]
  /\ InitManagerIdle

\* ------------------------------------------------------------- environment
WorkerCommands == {"THREAD_START", "THREAD_STOP", "THREAD_END", "NOT_A_COMMAND"}

WorkerInputs ==
  {Message(<<OwnerName>>, <<WName>>, c, None) : c \in WorkerCommands}
    \cup {Message(<<OwnerName>>, <<WName>>, "THREAD_SUBSCRIBE", <<ResultEndpoint, "qa">>)}

\* Somebody puts a message on W's input queue.
Put(m) ==
  /\ sent < MaxSend
  /\ sent' = sent + 1
  /\ input_queue' = [input_queue EXCEPT ![WName] = Append(@, m)]
  /\ hist' = HistPut(m)
  /\ UNCHANGED <<kind, pc, start_flag, stop_flag, end_flag, timers, runs, raised,
                 subscriptions, chan, owner, log>>
  /\ UNCHANGED managerVars
  /\ UNCHANGED exampleVars
  /\ UNCHANGED built
  /\ UNCHANGED <<parameters, preciseVars, clockVars>>

\* ------------------------------------------------------------------ run()
\* SimpleThread.run, one iteration up to the control loop: take a message,
\* handle it, then test and clear the start flag.  PreciseRepeatingThread.run
\* only takes and handles the message here; its flag tests are in Check.
Get(t) ==
  /\ kind[t] \in WorkerKinds
  /\ pc[t] = "get"
  /\ input_queue[t] # <<>>
  /\ LET m == Head(input_queue[t])
         s == StartAfter(t, m)
         e == EndAfter(t, m)
     IN /\ input_queue' = [input_queue EXCEPT ![t] = Tail(@)]
        /\ stop_flag' = [stop_flag EXCEPT ![t] = StopAfter(t, m)]
        /\ end_flag' = [end_flag EXCEPT ![t] = e]
        /\ timers' = [timers EXCEPT ![t] = TimersAfter(t, m)]
        /\ subscriptions' = [subscriptions EXCEPT ![t] = SubscriptionsAfter(t, m)]
        /\ hist' = HistGet(t, m)
        /\ log' = [log EXCEPT ![t] = LogAfter(t, m)]
        /\ parameters' = [parameters EXCEPT ![t] = ParametersAfter(t, m)]
        /\ new_predictions_flag' =
             [new_predictions_flag EXCEPT ![t] = NewPredictionsAfter(t, m)]
        /\ IF HandlerEscapes(t, m)
           THEN /\ pc' = [pc EXCEPT ![t] = "dead"]
                /\ UNCHANGED start_flag
           ELSE IF kind[t] = Precise
           THEN /\ start_flag' = [start_flag EXCEPT ![t] = s]
                /\ pc' = [pc EXCEPT ![t] = "check"]
           ELSE /\ start_flag' = [start_flag EXCEPT ![t] = FALSE]
                /\ pc' = [pc EXCEPT ![t] =
                            IF s THEN "loop" ELSE IF RunContinues(e) THEN "get" ELSE "done"]
  /\ UNCHANGED <<kind, runs, raised, chan, owner, sent>>
  /\ UNCHANGED managerVars
  /\ UNCHANGED exampleVars
  /\ UNCHANGED built
  /\ UNCHANGED <<main_runs, started_time, clockVars>>

PcAfterCheckMutQueueFirst(e, s) == IF ~RunContinues(e) THEN "done" ELSE "get"

\* PreciseRepeatingThread.run, where the top of the loop leads: out of the
\* loop, into _control_loop, or to input_queue.get().
PcAfterCheck(e, s) ==
  IF ~RunContinues(e) THEN "done" ELSE IF s THEN "loop" ELSE "get"

\* PreciseRepeatingThread.run: the while test, then the start-flag test that
\* comes before the queue is read.
Check(t) ==
  /\ kind[t] = Precise
  /\ pc[t] = "check"
  /\ LET p == PcAfterCheck(end_flag[t], start_flag[t])
     IN /\ pc' = [pc EXCEPT ![t] = p]
        /\ start_flag' = [start_flag EXCEPT ![t] = IF p = "loop" THEN FALSE ELSE @]
  /\ hist' = HistCheck(t)
  /\ UNCHANGED <<kind, input_queue, stop_flag, end_flag, timers, runs, raised,
                 subscriptions, chan, owner, log, sent>>
  /\ UNCHANGED managerVars
  /\ UNCHANGED exampleVars
  /\ UNCHANGED built
  /\ UNCHANGED <<parameters, preciseVars, clockVars>>

RunsMainMutAlways(t) == TRUE

\* Does this _control_loop call main?  The repeating classes skip it when the
\* stop flag is up.
RunsMain(t) == kind[t] \in {SingleRun, MultiRun} \/ ~stop_flag[t]

\* What a managed thread's main puts on its output queue: the sender path is
\* its owner's name and its own, the form ThreadManager._message_handle reads
\* (sender[1] is the child's name); the receiver is outside the manager.  The
\* package is main's payload: it records whether the manager had the thread's
\* name in destroyed_threads when main put the message (no action reads it).
ChildMessage(t) ==
  Message(<<owner[t], t>>, <<OwnerName>>, "RESULT", t \in destroyed_threads)

\* _control_loop of the four classes, with main: the example threads count
\* their runs and publish the count; a managed thread may put a message on
\* its output queue, which is its manager's input queue.  ok = FALSE: main
\* raises.
ControlLoop(t, ok, emit) ==
  /\ kind[t] \in WorkerKinds
  /\ pc[t] = "loop"
  /\ ok \/ (RunsMain(t) /\ ~raised[t] /\ t = WName)
  /\ emit => (ok /\ RunsMain(t) /\ t \in ChildNames)
  /\ input_queue' = IF emit
                     THEN [input_queue EXCEPT ![ManagerName] = Append(@, ChildMessage(t))]
                     ELSE input_queue
  /\ IF RunsMain(t)
     THEN /\ runs' = [runs EXCEPT ![t] = @ + 1]
          /\ raised' = [raised EXCEPT ![t] = @ \/ ~ok]
          /\ chan' = IF ok /\ t = WName THEN MainPublish(t) ELSE chan
          /\ result' = [result EXCEPT ![t] = IF ok THEN ResultAfterMain(t) ELSE @]
          /\ timers' = [timers EXCEPT ![t] =
                          IF ok /\ kind[t] \in {Repeating, Precise} THEN StartTimer(@) ELSE @]
     ELSE UNCHANGED <<runs, raised, chan, timers, result>>
  /\ IF RunsMain(t) /\ ok /\ kind[t] = Precise
     THEN /\ new_predictions_flag' = [new_predictions_flag EXCEPT ![t] = FALSE]
          /\ started_time' =
               [started_time EXCEPT ![t] = IF new_predictions_flag[t] THEN now ELSE @]
          /\ main_runs' =
               [main_runs EXCEPT ![t] = (IF new_predictions_flag[t] THEN 0 ELSE @) + 1]
     ELSE UNCHANGED preciseVars
  /\ LET e == IF ok THEN EndAfterControlLoop(kind[t], end_flag[t])
                   ELSE EndAfterRaise(end_flag[t])
     IN /\ end_flag' = [end_flag EXCEPT ![t] = e]
        /\ pc' = [pc EXCEPT ![t] =
                    IF kind[t] = Precise \/ RunContinues(e) THEN "get" ELSE "done"]
  /\ UNCHANGED <<kind, start_flag, stop_flag, subscriptions, owner, log, sent, hist>>
  /\ UNCHANGED managerVars
  /\ UNCHANGED <<parameters, clockVars, alternating, built>>

TimerStartFlagMutAlways(k, f) == TRUE

\* The start flag after repeating_start: PreciseRepeatingThread sets it,
\* RepeatingThread leaves it alone.
TimerStartFlag(k, f) == IF k = Precise THEN TRUE ELSE f

\* A pending Timer expires.  RepeatingThread.repeating_start puts the repeat
\* message; PreciseRepeatingThread.repeating_start first raises the start flag.
TimerFire(t, i) ==
  /\ kind[t] \in {Repeating, Precise}
  /\ i \in DOMAIN timers[t]
  /\ timers[t][i] = "pending"
  /\ runs[t] < MaxRuns
  /\ start_flag' = [start_flag EXCEPT ![t] = TimerStartFlag(kind[t], @)]
  /\ IF kind[t] = Precise
     THEN /\ timers' = [timers EXCEPT ![t][i] = "set"]
          /\ UNCHANGED input_queue
     ELSE /\ input_queue' = [input_queue EXCEPT ![t] =
                               Append(@, Message(<<t>>, <<t>>, "THREAD_REPEAT", None))]
          /\ timers' = [timers EXCEPT ![t][i] = "fired"]
  /\ UNCHANGED <<kind, pc, stop_flag, end_flag, runs, raised, subscriptions, chan,
                 owner, log, sent, hist>>
  /\ UNCHANGED managerVars
  /\ UNCHANGED exampleVars
  /\ UNCHANGED built
  /\ UNCHANGED <<parameters, preciseVars, clockVars>>

\* The second statement of PreciseRepeatingThread.repeating_start.
TimerPut(t, i) ==
  /\ i \in DOMAIN timers[t]
  /\ timers[t][i] = "set"
  /\ input_queue' = [input_queue EXCEPT ![t] =
                       Append(@, Message(<<t>>, <<t>>, "THREAD_REPEAT", None))]
  /\ timers' = [timers EXCEPT ![t][i] = "fired"]
  /\ UNCHANGED <<kind, pc, start_flag, stop_flag, end_flag, runs, raised, subscriptions,
                 chan, owner, log, sent, hist>>
  /\ UNCHANGED managerVars
  /\ UNCHANGED exampleVars
  /\ UNCHANGED built
  /\ UNCHANGED <<parameters, preciseVars, clockVars>>

TimerIds == 1..(MaxRuns + MaxSend + MaxManagerSend)

WorkerStep ==
  \/ Get(WName)
  \/ Check(WName)
  \/ \E ok \in BOOLEAN : ControlLoop(WName, ok, FALSE)

TimerStep ==
  \/ \E i \in TimerIds : TimerFire(WName, i)
  \/ \E i \in TimerIds : TimerPut(WName, i)

NextWorker ==
  \/ \E m \in WorkerInputs : Put(m)
  \/ WorkerStep
  \/ TimerStep

SpecWorker == InitWorker /\ [][NextWorker]_vars

\* The thread scheduler eventually runs a thread that can take a step.
SpecWorkerFair == SpecWorker /\ WF_vars(WorkerStep)

\* ======================================================== parameter updates
\* One standalone worker that is sent THREAD_UPDATE commands and messages for
\* its custom handler.
UpdateDicts ==
  { [key \in {"loop_timer"} |-> 5],
    [key \in {"param 1"} |-> 7],
    [key \in {"absent"} |-> 3],
    [key \in {"param 1", "absent"} |-> IF key = "absent" THEN 3 ELSE 8],
    <<>> }

UpdateInputs ==
  {Message(<<OwnerName>>, <<WName>>, "THREAD_UPDATE", Dict(f)) : f \in UpdateDicts}
    \cup {Message(<<OwnerName>>, <<WName>>, "THREAD_UPDATE", None)}

UpdatePut(m) ==
  /\ sent < MaxUpdates
  /\ Put(m)

\* Messages for the custom handler, and the same under the name message.py
\* and the docstring of _message_handle give the command.
HandleInputs ==
  {Message(<<OwnerName>>, <<WName>>, c, [raises |-> r]) :
     c \in {"THEAD_HANDLE", "THREAD_HANDLE"}, r \in {"no", "KeyError", "other"}}

HandlePut(m) ==
  /\ sent < MaxUpdates
  /\ Put(m)

NextParams ==
  \/ \E m \in UpdateInputs : UpdatePut(m)
  \/ \E m \in HandleInputs : HandlePut(m)
  \/ Get(WName)
  \/ Check(WName)

SpecParams == InitWorker /\ [][NextParams]_vars

\* ======================================================= publish, subscribe
\* One MultiRunThread of the examples, an ExampleMultiRunThread or an
\* ExampleAlternatingThread, with channels subscribed to its two endpoints.
InitPublish ==
  /\ InitThreads([t \in Threads |-> IF t = WName THEN MultiRun ELSE "none"])
  /\ \E a \in BOOLEAN : alternating = [t \in Threads |-> t = WName /\ a]
  /\ owner = [t \in Threads |-> OwnerName]
  /\ InitManagerIdle

PublishInputs ==
  {Message(<<OwnerName>>, <<WName>>, "THREAD_SUBSCRIBE", <<e, q>>) :
     e \in Endpoints, q \in Channels}
    \cup {Message(<<OwnerName>>, <<WName>>, c, None) : c \in {"THREAD_START", "THREAD_END"}}

NextPublish ==
  \/ \E m \in PublishInputs : Put(m)
  \/ Get(WName)
  \/ ControlLoop(WName, TRUE, FALSE)

SpecPublish == InitPublish /\ [][NextPublish]_vars

\* ====================================================== repeating, with time
\* One RepeatingThread or PreciseRepeatingThread W whose loop_timer is
\* LoopTimer, subscribed and started once at time 0 and then left alone until
\* WaitTime.  Handling a message takes no time; main takes up to MaxWork and
\* starts up to MaxLate after it is due; a Timer expires exactly on time.
Max(a, b) == IF a >= b THEN a ELSE b

RepeatTimeMutNoCorrection(l, start, finish, n, started) == Max(0, l - (finish - start))

\* PreciseRepeatingThread._control_loop: repeat_time.
RepeatTime(l, start, finish, n, started) ==
  Max(0, l - (finish - start) + ((l * n + started) - start))

IntervalTimeMutFromStart(l, start, finish) == Max(0, l - (finish - start))

\* RepeatingThread._control_loop: threading.Timer(self.parameters["loop_timer"], ...)
\* started when main has returned.
IntervalTime(l, start, finish) == l

EndAfterTimeoutMutEnds(e, repeat_time) == IF repeat_time = 0 THEN TRUE ELSE e

\* PreciseRepeatingThread.run: "except TimeoutError" logs the error; the end
\* flag is set only in "except Exception".
EndAfterTimeout(e, repeat_time) == e

InitTimed ==
  /\ \E k \in {Repeating, Precise} :
       InitThreads([t \in Threads |-> IF t = WName THEN k ELSE "none"])
  /\ alternating = [t \in Threads |-> FALSE]
  /\ owner = [t \in Threads |-> OwnerName]
  /\ InitManagerIdle

\* The test's preparation: the loop timer is set to LoopTimer, a channel is
\* subscribed, the thread is started.
TimedInputs ==
  << Message(<<OwnerName>>, <<WName>>, "THREAD_UPDATE", Dict([key \in {"loop_timer"} |-> LoopTimer])),
     Message(<<OwnerName>>, <<WName>>, "THREAD_SUBSCRIBE", <<ResultEndpoint, "qa">>),
     Message(<<OwnerName>>, <<WName>>, "THREAD_START", None) >>

TimedPut ==
  /\ sent < Len(TimedInputs)
  /\ Put(TimedInputs[sent + 1])

\* _control_loop of the two repeating classes with the clock: main starts
\* `late` after the run is due and takes `work`; then the Timer is started.
TimedControlLoop(t, late, work) ==
  /\ kind[t] \in {Repeating, Precise}
  /\ pc[t] = "loop"
  /\ RunsMain(t)
  /\ now + late + work <= WaitTime
  /\ LET l == parameters[t]["loop_timer"]
         start == now + late
         finish == start + work
         n == IF new_predictions_flag[t] THEN 0 ELSE main_runs[t]
         started == IF new_predictions_flag[t] THEN start ELSE started_time[t]
         repeat_time == IF kind[t] = Precise
                        THEN RepeatTime(l, start, finish, n, started)
                        ELSE IntervalTime(l, start, finish)
     IN /\ main_start_time' = [main_start_time EXCEPT ![t] = start]
        /\ main_finish_time' = [main_finish_time EXCEPT ![t] = finish]
        /\ now' = finish
        /\ deadline' = [deadline EXCEPT ![t] = finish + repeat_time]
        /\ IF kind[t] = Precise
           THEN /\ new_predictions_flag' = [new_predictions_flag EXCEPT ![t] = FALSE]
                /\ started_time' = [started_time EXCEPT ![t] = started]
                /\ main_runs' = [main_runs EXCEPT ![t] = n + 1]
                /\ log' = [log EXCEPT ![t] = IF repeat_time = 0 THEN "timeout" ELSE @]
                /\ end_flag' = [end_flag EXCEPT ![t] = EndAfterTimeout(@, repeat_time)]
           ELSE UNCHANGED <<preciseVars, log, end_flag>>
  /\ runs' = [runs EXCEPT ![t] = @ + 1]
  /\ chan' = Publish(t, runs[t] + 1, ResultEndpoint)
  /\ timers' = [timers EXCEPT ![t] = StartTimer(@)]
  /\ pc' = [pc EXCEPT ![t] =
              IF kind[t] = Precise \/ RunContinues(end_flag[t]) THEN "get" ELSE "done"]
  /\ UNCHANGED <<kind, input_queue, start_flag, stop_flag, raised, subscriptions,
                 owner, sent, hist, parameters>>
  /\ UNCHANGED managerVars
  /\ UNCHANGED exampleVars
  /\ UNCHANGED built

\* The Timer of t expires: the thread is waiting in input_queue.get(), so the
\* next thing that happens is repeating_start, at the Timer's expiry.
TimedFire(t, i) ==
  /\ kind[t] \in {Repeating, Precise}
  /\ i \in DOMAIN timers[t]
  /\ timers[t][i] = "pending"
  /\ pc[t] = "get"
  /\ input_queue[t] = <<>>
  /\ deadline[t] <= WaitTime
  /\ now' = Max(now, deadline[t])
  /\ start_flag' = [start_flag EXCEPT ![t] = TimerStartFlag(kind[t], @)]
  /\ IF kind[t] = Precise
     THEN /\ timers' = [timers EXCEPT ![t][i] = "set"]
          /\ UNCHANGED input_queue
     ELSE /\ input_queue' = [input_queue EXCEPT ![t] =
                               Append(@, Message(<<t>>, <<t>>, "THREAD_REPEAT", None))]
          /\ timers' = [timers EXCEPT ![t][i] = "fired"]
  /\ UNCHANGED <<kind, pc, stop_flag, end_flag, runs, raised, subscriptions, chan,
                 owner, log, sent, hist, parameters, preciseVars, deadline,
                 main_start_time, main_finish_time>>
  /\ UNCHANGED managerVars
  /\ UNCHANGED exampleVars
  /\ UNCHANGED built

NextTimed ==
  \/ TimedPut
  \/ Get(WName)
  \/ Check(WName)
  \/ \E late \in 0..MaxLate, work \in 0..MaxWork : TimedControlLoop(WName, late, work)
  \/ \E i \in TimerIds : TimedFire(WName, i)
  \/ \E i \in TimerIds : TimerPut(WName, i)

SpecTimed == InitTimed /\ [][NextTimed]_vars

\* ==================================================== precise, with commands
\* One PreciseRepeatingThread W with its default loop_timer of one time unit,
\* which is sent start commands and new loop timers, by SET_LOOP_TIMER and by
\* THREAD_UPDATE, at any time up to WaitTime.
InitPrecise ==
  /\ InitThreads([t \in Threads |-> IF t = WName THEN Precise ELSE "none"])
  /\ alternating = [t \in Threads |-> FALSE]
  /\ owner = [t \in Threads |-> OwnerName]
  /\ InitManagerIdle

\* What W is sent, in this order: a start command, then a new loop timer by
\* one of the two commands (or a SET_LOOP_TIMER without a dictionary), then
\* possibly another start command.
PreciseInputs ==
  << {Message(<<OwnerName>>, <<WName>>, "THREAD_START", None)},
     {Message(<<OwnerName>>, <<WName>>, c, Dict([key \in {"loop_timer"} |-> 2])) :
        c \in {"SET_LOOP_TIMER", "THREAD_UPDATE"}}
       \cup {Message(<<OwnerName>>, <<WName>>, "SET_LOOP_TIMER", None)},
     {Message(<<OwnerName>>, <<WName>>, "THREAD_START", None)} >>

\* The last Timer of t is waiting to expire.
TimerWaits(t) == timers[t] # <<>> /\ timers[t][Len(timers[t])] = "pending"

\* A message arrives `wait` after the last event, before the Timer expires.
PrecisePut(m, wait) ==
  /\ sent < Len(PreciseInputs)
  /\ m \in PreciseInputs[sent + 1]
  /\ now + wait <= WaitTime
  /\ TimerWaits(WName) => now + wait <= deadline[WName]
  /\ pc[WName] # "get" => wait = 0
  /\ now' = now + wait
  /\ sent' = sent + 1
  /\ input_queue' = [input_queue EXCEPT ![WName] = Append(@, m)]
  /\ hist' = HistPut(m)
  /\ UNCHANGED <<kind, pc, start_flag, stop_flag, end_flag, timers, runs, raised,
                 subscriptions, chan, owner, log>>
  /\ UNCHANGED managerVars
  /\ UNCHANGED exampleVars
  /\ UNCHANGED built
  /\ UNCHANGED <<parameters, preciseVars, deadline, main_start_time, main_finish_time>>

\* The Timer expires, for the first MaxRuns executions.
PreciseFire(i) ==
  /\ runs[WName] < MaxRuns
  /\ TimedFire(WName, i)

NextPrecise ==
  \/ \E wait \in 0..MaxLate :
       \E m \in UNION {PreciseInputs[i] : i \in DOMAIN PreciseInputs} : PrecisePut(m, wait)
  \/ Get(WName)
  \/ Check(WName)
  \/ \E late \in 0..MaxLate, work \in 0..MaxWork : TimedControlLoop(WName, late, work)
  \/ \E i \in TimerIds : PreciseFire(i)
  \/ \E i \in TimerIds : TimerPut(WName, i)

SpecPrecise == InitPrecise /\ [][NextPrecise]_vars

\* ============================================================ ThreadManager
Range(p) == {p[i] : i \in DOMAIN p}

\* garbage_collect: the names in active_threads whose thread is not alive.
Inactive(a) == {c \in DOMAIN a : ~IsAlive(c)}

GCActiveMutAll(a) == <<>>

GCActiveMutKeep(a) == a

\* garbage_collect: "del self.active_threads[thread_name]"
GCActive(a) == [c \in (DOMAIN a) \ Inactive(a) |-> a[c]]

GCDestroyedMutKeep(a, d) == d

\* garbage_collect: "self.destroyed_threads.remove(thread_name)"
GCDestroyed(a, d) == d \ Inactive(a)

\* ThreadManager._message_handle: which branch takes the message.
Route(m) ==
  IF m.receiver = <<ManagerName>> THEN "self"
  ELSE IF ManagerName \in Range(m.receiver) THEN "child"
  ELSE "up"

StripMutKeep(r) == r

\* "message.receiver = message.receiver[1:]"
Strip(r) == Tail(r)

\* "message.sender = [self.owner, *message.sender]" (o: owner, n: own name)
Prepend(o, n, s) == <<o>> \o s

EndWaitDoneMutNoWait(a) == TRUE

\* _thread_end: "while len(self.active_threads.keys()) > 0" has ended.
EndWaitDone(a) == DOMAIN a = {}

\* The package of SET_THREAD_TYPES is a dictionary.
IsMapping(p) == DOMAIN p \subseteq TypeIds

UpdateMutReplace(old, new) == new

\* dict.update
Update(old, new) ==
  [k \in (DOMAIN old) \cup (DOMAIN new) |-> IF k \in DOMAIN new THEN new[k] ELSE old[k]]

\* The message input_queue.get() returns next, if there is one.
ManagerHead ==
  IF input_queue[ManagerName] = <<>> THEN {} ELSE {Head(input_queue[ManagerName])}

\* The manager takes the head of its queue; run() then tests the start flag
\* (main of the ThreadManager is pass) and the end flag.
ManagerTakes(m) ==
  /\ kind[ManagerName] = Manager
  /\ pc[ManagerName] = "get"
  /\ input_queue[ManagerName] # <<>>
  /\ m = Head(input_queue[ManagerName])

DeliverAndTakeMutInFront(puts) ==
  input_queue' =
    [t \in Threads |->
       IF t = ManagerName THEN Tail(input_queue[t])
       ELSE IF t \in DOMAIN puts THEN <<puts[t]>> \o input_queue[t]
       ELSE input_queue[t]]

\* The thread-state variables after the manager has put `puts` (a function
\* from child names to messages) on the children's queues.
DeliverAndTake(puts) ==
  input_queue' =
    [t \in Threads |->
       IF t = ManagerName THEN Tail(input_queue[t])
       ELSE IF t \in DOMAIN puts THEN Append(input_queue[t], puts[t])
       ELSE input_queue[t]]

childVars == <<kind, timers, runs, raised, subscriptions, chan, owner, sent, hist,
              alternating, result, built>>

\* Addressed to the manager itself, a command of SimpleThread's address book
\* other than THREAD_END, or an unknown command: SimpleThread._message_handle.
ManagerBase ==
  \E m \in ManagerHead :
    /\ ManagerTakes(m)
    /\ Route(m) = "self"
    /\ m.command \notin ManagerAddressBook \cup {"THREAD_END"}
    /\ DeliverAndTake(<<>>)
    /\ active_threads' = GCActive(active_threads)
    /\ destroyed_threads' = GCDestroyed(active_threads, destroyed_threads)
    /\ start_flag' = [start_flag EXCEPT ![ManagerName] = FALSE]
    /\ stop_flag' = [stop_flag EXCEPT ![ManagerName] = StopAfter(ManagerName, m)]
    /\ log' = [log EXCEPT ![ManagerName] = LogAfter(ManagerName, m)]
    /\ parameters' = [parameters EXCEPT ![ManagerName] = ParametersAfter(ManagerName, m)]
    /\ pc' = [pc EXCEPT ![ManagerName] = IF HandlerEscapes(ManagerName, m) THEN "dead" ELSE @]
    /\ UNCHANGED <<end_flag, thread_types, output_queue, created>>
    /\ UNCHANGED childVars
    /\ UNCHANGED <<preciseVars, clockVars>>

EndTargetsMutNone(a) == {}

\* _thread_end: "for thread_name in self.active_threads.keys()", the threads
\* that are sent THREAD_END.
EndTargets(a) == DOMAIN a

\* ThreadManager._thread_end up to its waiting loop.
ManagerThreadEnd ==
  \E m \in ManagerHead :
    /\ ManagerTakes(m)
    /\ Route(m) = "self"
    /\ m.command = "THREAD_END"
    /\ LET a == GCActive(active_threads)
       IN /\ active_threads' = a
          /\ destroyed_threads' = DOMAIN a
          /\ DeliverAndTake([c \in EndTargets(a) |->
                               Message(<<ManagerName>>, <<c>>, "THREAD_END", None)])
    /\ pc' = [pc EXCEPT ![ManagerName] = "ending"]
    /\ log' = [log EXCEPT ![ManagerName] = ""]
    /\ UNCHANGED <<start_flag, stop_flag, end_flag, thread_types, output_queue, created>>
    /\ UNCHANGED childVars
    /\ UNCHANGED <<parameters, preciseVars, clockVars>>

\* The waiting loop of _thread_end collects the children that have stopped;
\* when none is left the end flag is set and run() returns.
ManagerEndWait ==
  /\ pc[ManagerName] = "ending"
  /\ LET a == GCActive(active_threads)
     IN /\ a # active_threads \/ EndWaitDone(a)
        /\ active_threads' = a
        /\ destroyed_threads' = GCDestroyed(active_threads, destroyed_threads)
        /\ IF EndWaitDone(a)
           THEN /\ end_flag' = [end_flag EXCEPT ![ManagerName] = TRUE]
                /\ pc' = [pc EXCEPT ![ManagerName] = "done"]
           ELSE UNCHANGED <<end_flag, pc>>
  /\ UNCHANGED <<input_queue, start_flag, stop_flag, thread_types, output_queue, created, log>>
  /\ UNCHANGED childVars
  /\ UNCHANGED <<parameters, preciseVars, clockVars>>

CreateErrorMutNoNameCheck(p, a) ==
  IF Len(p) # 2 THEN "no_name_or_type"
  ELSE IF p[2] \notin DOMAIN thread_types THEN "no_type"
  ELSE ""

\* create_new_thread: what it logs, "" when the thread is created.
CreateError(p, a) ==
  IF Len(p) # 2 THEN "no_name_or_type"
  ELSE IF p[2] \notin DOMAIN thread_types THEN "no_type"
  ELSE IF p[1] \in DOMAIN a THEN "in_use"
  ELSE ""

\* A new thread object under name c, of class k, owned by the manager, with
\* an input queue of its own ("Queue()").
NewThread(f, c, v) == [f EXCEPT ![c] = v]

ManagerCreate ==
  \E m \in ManagerHead :
    /\ ManagerTakes(m)
    /\ Route(m) = "self"
    /\ m.command = "NEW_THREAD"
    /\ LET a == GCActive(active_threads)
           err == CreateError(m.package, a)
           c == m.package[1]
           k == thread_types[m.package[2]]
       IN /\ destroyed_threads' = GCDestroyed(active_threads, destroyed_threads)
          /\ IF err # ""
             THEN /\ active_threads' = a
                  /\ DeliverAndTake(<<>>)
                  /\ log' = [log EXCEPT ![ManagerName] = err]
                  /\ UNCHANGED <<created, kind, pc, start_flag, stop_flag, end_flag,
                                 timers, runs, raised, owner, parameters, preciseVars,
                                 deadline, built>>
             ELSE /\ created' = [created EXCEPT ![c] = @ + 1]
                  /\ active_threads' =
                       [x \in (DOMAIN a) \cup {c} |-> IF x = c THEN created[c] + 1 ELSE a[x]]
                  /\ input_queue' = [input_queue EXCEPT ![ManagerName] = Tail(@),
                                                          ![c] = <<>>]
                  /\ log' = [log EXCEPT ![ManagerName] = err, ![c] = ""]
                  /\ kind' = NewThread(kind, c, k)
                  /\ pc' = NewThread(pc, c, IF k = Precise THEN "check" ELSE "get")
                  /\ start_flag' = NewThread(start_flag, c, FALSE)
                  /\ stop_flag' = NewThread(stop_flag, c, FALSE)
                  /\ end_flag' = NewThread(end_flag, c, FALSE)
                  /\ timers' = NewThread(timers, c, <<>>)
                  /\ runs' = NewThread(runs, c, 0)
                  /\ raised' = NewThread(raised, c, FALSE)
                  /\ owner' = NewThread(owner, c, ManagerName)
                  /\ parameters' = NewThread(parameters, c, InitParameters(k))
                  /\ new_predictions_flag' = NewThread(new_predictions_flag, c, FALSE)
                  /\ main_runs' = NewThread(main_runs, c, 0)
                  /\ started_time' = NewThread(started_time, c, 0)
                  /\ deadline' = NewThread(deadline, c, 0)
                  /\ built' = NewThread(built, c, Complete(k))
    /\ UNCHANGED <<thread_types, output_queue, subscriptions, chan, sent, hist, now,
                   main_start_time, main_finish_time, exampleVars>>

\* set_thread_types
ManagerSetTypes ==
  \E m \in ManagerHead :
    /\ ManagerTakes(m)
    /\ Route(m) = "self"
    /\ m.command = "SET_THREAD_TYPES"
    /\ DeliverAndTake(<<>>)
    /\ active_threads' = GCActive(active_threads)
    /\ destroyed_threads' = GCDestroyed(active_threads, destroyed_threads)
    /\ IF IsMapping(m.package)
       THEN /\ thread_types' = Update(thread_types, m.package)
            /\ log' = [log EXCEPT ![ManagerName] = ""]
       ELSE /\ UNCHANGED thread_types
            /\ log' = [log EXCEPT ![ManagerName] = "no_dictionary"]
    /\ UNCHANGED <<pc, start_flag, stop_flag, end_flag, output_queue, created>>
    /\ UNCHANGED childVars
    /\ UNCHANGED <<parameters, preciseVars, clockVars>>

DestroyErrorMutNoActiveCheck(c, a, d) ==
  IF c \in d THEN "already_destroyed"
  ELSE ""

DestroyErrorMutNoDestroyedCheck(c, a, d) ==
  IF c \notin DOMAIN a THEN "not_found"
  ELSE ""

\* destroy_thread: what it logs, "" when the thread is told to end.
DestroyError(c, a, d) ==
  IF c \notin DOMAIN a THEN "not_found"
  ELSE IF c \in d THEN "already_destroyed"
  ELSE ""

\* destroy_thread.  A package without a thread name makes the handler call
\* self.logger, which is not callable: the exception ends the manager.
ManagerDestroy ==
  \E m \in ManagerHead :
    /\ ManagerTakes(m)
    /\ Route(m) = "self"
    /\ m.command = "DESTROY_THREAD"
    /\ LET a == GCActive(active_threads)
           d == GCDestroyed(active_threads, destroyed_threads)
           c == m.package[1]
       IN /\ active_threads' = a
          /\ IF Len(m.package) # 1
             THEN /\ pc' = [pc EXCEPT ![ManagerName] = "dead"]
                  /\ log' = [log EXCEPT ![ManagerName] = "exception"]
                  /\ destroyed_threads' = d
                  /\ DeliverAndTake(<<>>)
             ELSE /\ pc' = pc
                  /\ log' = [log EXCEPT ![ManagerName] = DestroyError(c, a, d)]
                  /\ IF DestroyError(c, a, d) # ""
                     THEN /\ destroyed_threads' = d
                          /\ DeliverAndTake(<<>>)
                     ELSE /\ destroyed_threads' = d \cup {c}
                          /\ DeliverAndTake([x \in {c} |->
                                Message(<<ManagerName>>, <<c>>, "THREAD_END", None)])
    /\ UNCHANGED <<start_flag, stop_flag, end_flag, thread_types, output_queue, created>>
    /\ UNCHANGED childVars
    /\ UNCHANGED <<parameters, preciseVars, clockVars>>

\* get_active_threads: the reply goes to the output queue.
ManagerActiveThreads ==
  \E m \in ManagerHead :
    /\ ManagerTakes(m)
    /\ Route(m) = "self"
    /\ m.command = "ACTIVE_THREADS"
    /\ DeliverAndTake(<<>>)
    /\ LET a == GCActive(active_threads)
       IN /\ active_threads' = a
          /\ output_queue' = Append(output_queue,
               Message(<<ManagerName>>, m.sender, "ACTIVE_THREADS", [c \in DOMAIN a |-> kind[c]]))
    /\ destroyed_threads' = GCDestroyed(active_threads, destroyed_threads)
    /\ log' = [log EXCEPT ![ManagerName] = ""]
    /\ UNCHANGED <<pc, start_flag, stop_flag, end_flag, thread_types, created>>
    /\ UNCHANGED childVars
    /\ UNCHANGED <<parameters, preciseVars, clockVars>>

\* _message_handle, "Addressed to child thread": strip the first name of the
\* receiver and put the message on the queue of the thread it then names.
ManagerToChild ==
  \E m \in ManagerHead :
    /\ ManagerTakes(m)
    /\ Route(m) = "child"
    /\ LET a == GCActive(active_threads)
           r == Strip(m.receiver)
       IN /\ active_threads' = a
          /\ IF r[1] \in DOMAIN a
             THEN DeliverAndTake([x \in {r[1]} |-> [m EXCEPT !.receiver = r]])
             ELSE DeliverAndTake(<<>>)
    /\ destroyed_threads' = GCDestroyed(active_threads, destroyed_threads)
    /\ log' = [log EXCEPT ![ManagerName] = ""]
    /\ UNCHANGED <<pc, start_flag, stop_flag, end_flag, thread_types, output_queue, created>>
    /\ UNCHANGED childVars
    /\ UNCHANGED <<parameters, preciseVars, clockVars>>

ForwardErrorMutNoDestroyedCheck(s, d) ==
  IF Len(s) <= 1 THEN "short_sender"
  ELSE ""

\* _message_handle, the last branch: what it logs, "" when the message goes up.
ForwardError(s, d) ==
  IF Len(s) <= 1 THEN "short_sender"
  ELSE IF s[2] \in d THEN "destroyed_sender"
  ELSE ""

\* _message_handle, the last branch: the message leaves through the output
\* queue with the owner's name put in front of its sender, or is dropped.
ManagerForward ==
  \E m \in ManagerHead :
    /\ ManagerTakes(m)
    /\ Route(m) = "up"
    /\ DeliverAndTake(<<>>)
    /\ LET d == GCDestroyed(active_threads, destroyed_threads)
           err == ForwardError(m.sender, d)
       IN /\ destroyed_threads' = d
          /\ log' = [log EXCEPT ![ManagerName] = err]
          /\ output_queue' =
               IF err = ""
               THEN Append(output_queue,
                      [m EXCEPT !.sender = Prepend(owner[ManagerName], ManagerName, m.sender)])
               ELSE output_queue
    /\ active_threads' = GCActive(active_threads)
    /\ UNCHANGED <<pc, start_flag, stop_flag, end_flag, thread_types, created>>
    /\ UNCHANGED childVars
    /\ UNCHANGED <<parameters, preciseVars, clockVars>>

\* The manager right after its constructor, owned by Owner or by nobody.
InitManager ==
  /\ InitThreads([t \in Threads |-> IF t = ManagerName THEN Manager ELSE "none"])
  /\ alternating = [t \in Threads |-> FALSE]
  /\ \E o \in {OwnerName, "None"} :
       owner = [t \in Threads |-> IF t = ManagerName THEN o ELSE ManagerName]
  /\ InitManagerIdle

TypesPackage ==
  [i \in TypeIds |->
     IF i = "single" THEN SingleRun ELSE IF i = "multi" THEN MultiRun ELSE Repeating]

ManagerInputs ==
  {Message(<<OwnerName>>, <<ManagerName>>, "SET_THREAD_TYPES", TypesPackage)}
    \cup {Message(<<OwnerName>>, <<ManagerName>>, "NEW_THREAD", <<c, i>>) :
            c \in ChildNames, i \in TypeIds}
    \cup {Message(<<OwnerName>>, <<ManagerName>>, "DESTROY_THREAD", <<c>>) : c \in ChildNames}
    \cup {Message(<<OwnerName>>, <<ManagerName>>, c, None) :
            c \in {"THREAD_END", "ACTIVE_THREADS", "THREAD_START"}}
    \cup {Message(<<OwnerName>>, <<ManagerName, c>>, "THREAD_START", None) : c \in ChildNames}

\* Somebody puts a message on the manager's input queue.
ManagerPut(m) ==
  /\ sent < MaxManagerSend
  /\ Len(input_queue[ManagerName]) < MaxQueue
  /\ sent' = sent + 1
  /\ input_queue' = [input_queue EXCEPT ![ManagerName] = Append(@, m)]
  /\ UNCHANGED <<kind, pc, start_flag, stop_flag, end_flag, timers, runs, raised,
                 subscriptions, chan, owner, log, hist>>
  /\ UNCHANGED managerVars
  /\ UNCHANGED exampleVars
  /\ UNCHANGED built
  /\ UNCHANGED <<parameters, preciseVars, clockVars>>

\* Whoever reads the output queue answers a message a child's main has sent:
\* the reply is addressed to the sender path the message arrived with and put
\* on the manager's input queue.
ReplyTo(m) == Message(<<OwnerName>>, m.sender, "REPLY", None)

ManagerReply ==
  \E i \in DOMAIN output_queue :
    /\ output_queue[i].command = "RESULT"
    /\ ManagerPut(ReplyTo(output_queue[i]))

ManagerStep ==
  \/ ManagerBase
  \/ ManagerThreadEnd
  \/ ManagerEndWait
  \/ ManagerCreate
  \/ ManagerSetTypes
  \/ ManagerDestroy
  \/ ManagerActiveThreads
  \/ ManagerToChild
  \/ ManagerForward

ChildStep ==
  \/ \E c \in ChildNames : Get(c)
  \/ \E c \in ChildNames, emit \in BOOLEAN : ControlLoop(c, TRUE, emit)
  \/ \E c \in ChildNames, i \in TimerIds : TimerFire(c, i)

NextManager ==
  \/ \E m \in ManagerInputs : ManagerPut(m)
  \/ ManagerReply
  \/ ManagerStep
  \/ ChildStep

SpecManager == InitManager /\ [][NextManager]_vars

\* ------------------------------------------------------- claims C1 .. C5
InQueue(t, c) == \E i \in DOMAIN input_queue[t] : input_queue[t][i].command = c

\* C1: a SingleRunThread executes main at most once; once a start command has
\* been dispatched it is either about to execute main for the first time or
\* has executed it exactly once, has its end flag set and is no longer
\* running, whatever start commands are enqueued afterwards.
C1_SingleRunOnce ==
  kind[WName] = SingleRun =>
    /\ runs[WName] <= 1
    /\ hist.startsHandled >= 1 =>
         \/ pc[WName] = "loop" /\ runs[WName] = 0
         \/ runs[WName] = 1 /\ end_flag[WName] /\ ~IsAlive(WName)

C1_Witness ==
  /\ kind[WName] = SingleRun
  /\ runs[WName] = 1
  /\ ~IsAlive(WName)
  /\ InQueue(WName, "THREAD_START")

\* C2: a MultiRunThread that has ended on an end command (main never raised)
\* has executed main once per start command enqueued before that end command,
\* and every channel subscribed before the first start holds 1, 2, .., N.
C2_MultiRunCounts ==
  (kind[WName] = MultiRun /\ pc[WName] = "done" /\ ~raised[WName]) =>
    /\ runs[WName] = hist.startsBeforeEnd
    /\ \A q \in hist.subEarly : chan[q] = [i \in 1..runs[WName] |-> i]

C2_Witness ==
  /\ kind[WName] = MultiRun
  /\ pc[WName] = "done"
  /\ runs[WName] = 2
  /\ "qa" \in hist.subEarly
  /\ chan["qa"] = <<1, 2>>

\* C3: once the end flag of a worker is set, no step executes main again.
C3_NoRunAfterEnd == [][end_flag[WName] => runs'[WName] = runs[WName]]_vars

C3_Witness ==
  /\ kind[WName] = Repeating
  /\ end_flag[WName]
  /\ ~IsAlive(WName)
  /\ runs[WName] >= 1
  /\ InQueue(WName, "THREAD_REPEAT")
  /\ InQueue(WName, "THREAD_START")

\* C4: a worker whose end command was enqueued before any start command never
\* executes main and is never about to.
C4_EndBeforeStart == hist.endFirst => (runs[WName] = 0 /\ pc[WName] # "loop")

C4_Witness ==
  /\ hist.endFirst
  /\ hist.startEnqueued
  /\ ~IsAlive(WName)
  /\ runs[WName] = 0
  /\ InQueue(WName, "THREAD_START")

\* C5: under a fair scheduler, a worker with an end command in its input queue
\* eventually stops running.
C5_EndEventuallyStops == hist.endEnqueued ~> ~IsAlive(WName)

C5_Witness ==
  /\ hist.endEnqueued
  /\ ~IsAlive(WName)
  /\ runs[WName] >= 1

\* ------------------------------------------------------ claims C6 .. C10
\* This step is the manager taking message m from its queue and handling it.
ManagerHandles(m) ==
  /\ ManagerTakes(m)
  /\ Len(input_queue'[ManagerName]) = Len(input_queue[ManagerName]) - 1

\* The collections as the handlers see them: after the garbage collection
\* that opens _message_handle.
ActiveNow == DOMAIN GCActive(active_threads)

DestroyedNow == GCDestroyed(active_threads, destroyed_threads)

\* C6: when the manager's end flag is set, active_threads is empty and no
\* thread it created is alive.
C6_NoChildOutlives ==
  end_flag[ManagerName] =>
    /\ DOMAIN active_threads = {}
    /\ \A c \in ChildNames : ~IsAlive(c)

C6_Witness ==
  /\ end_flag[ManagerName]
  /\ \E c \in ChildNames : kind[c] = Repeating /\ runs[c] >= 1 /\ timers[c] # <<>>

\* C7: a NEW_THREAD for a name that is in active_threads is rejected and
\* logged: no thread is constructed, the entry and the thread it names stay
\* as they are, destroyed_threads and thread_types are left alone.
C7_DuplicateCreateRejected ==
  [][\A m \in ManagerHead :
       (/\ ManagerHandles(m)
        /\ Route(m) = "self"
        /\ m.command = "NEW_THREAD"
        /\ Len(m.package) = 2
        /\ m.package[1] \in ActiveNow)
       => /\ active_threads' = GCActive(active_threads)
          /\ created' = created
          /\ destroyed_threads' = DestroyedNow
          /\ thread_types' = thread_types
          /\ kind'[m.package[1]] = kind[m.package[1]]
          /\ pc'[m.package[1]] = pc[m.package[1]]
          /\ runs'[m.package[1]] = runs[m.package[1]]
          /\ Len(input_queue'[m.package[1]]) = Len(input_queue[m.package[1]])
          /\ log'[ManagerName] \in {"in_use", "no_type"}]_vars

C7_Witness ==
  /\ log[ManagerName] = "in_use"
  /\ \E c \in ChildNames : c \in DOMAIN active_threads /\ created[c] = 1 /\ IsAlive(c)

\* C8: a thread is constructed under a name only when, at that moment, the
\* name is neither in active_threads nor in destroyed_threads.
C8_CreateOnlyFreshName ==
  [][\A c \in ChildNames :
       created'[c] # created[c]
       => /\ c \notin ActiveNow
          /\ c \notin DestroyedNow
          /\ c \in DOMAIN active_threads'
          /\ c \notin destroyed_threads']_vars

C8_Witness ==
  /\ created["X"] = 2
  /\ "X" \in DOMAIN active_threads
  /\ "X" \notin destroyed_threads
  /\ IsAlive("X")

\* C9: a message for <<manager, child>>, child in active_threads, is put at
\* the end of that child's queue with receiver <<child>> and the same sender,
\* command and package; nothing goes to the output queue and the manager's own
\* state is not touched.
C9_RouteToChild ==
  [][\A m \in ManagerHead : \A c \in ChildNames :
       (/\ ManagerHandles(m)
        /\ m.receiver = <<ManagerName, c>>
        /\ c \in ActiveNow)
       => /\ Len(input_queue'[c]) = Len(input_queue[c]) + 1
          /\ LET got == input_queue'[c][Len(input_queue'[c])]
             IN /\ got.receiver = <<c>>
                /\ got.sender = m.sender
                /\ got.command = m.command
                /\ got.package = m.package
          /\ output_queue' = output_queue
          /\ thread_types' = thread_types
          /\ created' = created
          /\ active_threads' = GCActive(active_threads)
          /\ destroyed_threads' = DestroyedNow
          /\ pc'[ManagerName] = "get"
          /\ start_flag'[ManagerName] = start_flag[ManagerName]
          /\ stop_flag'[ManagerName] = stop_flag[ManagerName]
          /\ end_flag'[ManagerName] = end_flag[ManagerName]]_vars

C9_Witness ==
  \E c \in ChildNames :
    /\ IsAlive(c)
    /\ input_queue[c] # <<>>
    /\ Head(input_queue[c]).sender = <<OwnerName>>
    /\ Head(input_queue[c]).receiver = <<c>>
    /\ Head(input_queue[c]).command = "THREAD_START"

\* C10: a manager that has an owner forwards a message of a child that is not
\* destroyed and not addressed within its subtree with the manager's own name
\* put in front of the sender path, on its output queue.
C10_ForwardPrependsOwnName ==
  [][\A m \in ManagerHead :
       (/\ ManagerHandles(m)
        /\ Route(m) = "up"
        /\ owner[ManagerName] # "None"
        /\ Len(m.sender) > 1
        /\ m.sender[2] \in ChildNames
        /\ m.sender[2] \notin DestroyedNow)
       => /\ Len(output_queue') = Len(output_queue) + 1
          /\ output_queue'[Len(output_queue')].sender = <<ManagerName>> \o m.sender]_vars

\* ----------------------------------------------------- claims C11 .. C20
\* C11: a manager without an owner forwards a message that is not addressed
\* within its subtree with the sender path as it was: nothing is put in front.
C11_RootForwardsUnchanged ==
  [][\A m \in ManagerHead :
       (/\ ManagerHandles(m)
        /\ Route(m) = "up"
        /\ owner[ManagerName] = "None"
        /\ Len(m.sender) > 1
        /\ m.sender[2] \in ChildNames
        /\ m.sender[2] \notin DestroyedNow)
       => /\ Len(output_queue') = Len(output_queue) + 1
          /\ output_queue'[Len(output_queue')].sender = m.sender]_vars

\* C12: a message a child put on the manager's queue while its name was in
\* destroyed_threads (after its DESTROY_THREAD was handled, before it stopped)
\* is never forwarded to the output queue nor delivered to a child, whenever
\* the manager takes it.
C12_DestroyQuarantine ==
  [][\A m \in ManagerHead :
       (/\ ManagerHandles(m)
        /\ m.command = "RESULT"
        /\ m.package = TRUE)
       => /\ output_queue' = output_queue
          /\ \A c \in ChildNames : Len(input_queue'[c]) = Len(input_queue[c])]_vars

\* C13: when the manager takes a NEW_THREAD (known type) for a name whose
\* earlier thread, destroyed or ended by itself, has already stopped, the
\* thread is created: the name is in active_threads again, names a running
\* thread and is not in destroyed_threads.
C13_ReuseAfterStop ==
  [][\A m \in ManagerHead : \A c \in ChildNames :
       (/\ ManagerHandles(m)
        /\ Route(m) = "self"
        /\ m.command = "NEW_THREAD"
        /\ Len(m.package) = 2
        /\ m.package[1] = c
        /\ m.package[2] \in DOMAIN thread_types
        /\ created[c] >= 1
        /\ ~IsAlive(c))
       => /\ created'[c] = created[c] + 1
          /\ c \in DOMAIN active_threads'
          /\ active_threads'[c] = created'[c]
          /\ c \notin destroyed_threads'
          /\ pc'[c] \in {"get", "check"}
          /\ runs'[c] = 0]_vars

\* A name is in use for the second time, and the output queue holds a message
\* the first thread of that name put while it was not marked destroyed.
C13_Witness ==
  \E c \in ChildNames :
    /\ created[c] = 2
    /\ c \in DOMAIN active_threads
    /\ c \notin destroyed_threads
    /\ IsAlive(c)
    /\ runs[c] = 0
    /\ \E i \in DOMAIN output_queue :
         /\ output_queue[i].command = "RESULT"
         /\ output_queue[i].sender[Len(output_queue[i].sender)] = c
         /\ output_queue[i].package = FALSE

\* C14: while a RepeatingThread or PreciseRepeatingThread has dispatched a
\* stop command and no start command since, no step executes main, whatever
\* repeat messages or fired timers are around.
C14_StoppedNoRun ==
  [][(kind[WName] \in {Repeating, Precise} /\ hist.stopped)
       => runs'[WName] = runs[WName]]_vars

\* The repeat message of a fired timer has been taken from the queue while W
\* was stopped, and the only execution is still the one of the start command.
C14_Witness ==
  /\ kind[WName] \in {Repeating, Precise}
  /\ hist.stopped
  /\ pc[WName] = "get"
  /\ runs[WName] = 1
  /\ timers[WName] # <<>>
  /\ timers[WName][Len(timers[WName])] = "fired"
  /\ ~InQueue(WName, "THREAD_REPEAT")
  /\ ~end_flag[WName]

\* C15: a RepeatingThread that dispatches a start command goes to its control
\* loop with the stop flag clear, and from there executes main once before it
\* takes another message from its queue, whether it was idle, stopped or
\* waiting for a pending timer.
C15_StartAlwaysRuns ==
  [][kind[WName] = Repeating =>
       /\ hist'.startsHandled # hist.startsHandled
            => (pc'[WName] = "loop" /\ ~stop_flag'[WName])
       /\ (pc[WName] = "loop" /\ ~stop_flag[WName])
            => /\ ~stop_flag'[WName]
               /\ Len(input_queue'[WName]) >= Len(input_queue[WName])
               /\ pc'[WName] # "loop" => runs'[WName] = runs[WName] + 1]_vars

\* The second start command was dispatched while the timer of the first
\* execution was pending: the timer is cancelled and W is about to run main.
C15_Witness ==
  /\ kind[WName] = Repeating
  /\ pc[WName] = "loop"
  /\ hist.startsHandled = 2
  /\ runs[WName] = 1
  /\ timers[WName] # <<>>
  /\ timers[WName][Len(timers[WName])] = "cancelled"
  /\ ~stop_flag[WName]

\* W waits in input_queue.get() for a Timer that expires after WaitTime.
Quiescent ==
  /\ pc[WName] = "get"
  /\ input_queue[WName] = <<>>
  /\ timers[WName] # <<>>
  /\ timers[WName][Len(timers[WName])] = "pending"
  /\ deadline[WName] > WaitTime

\* This step is an execution of main by W.
Executes == runs'[WName] = runs[WName] + 1

\* C16: a RepeatingThread started once and left alone begins an execution
\* loop_timer after the previous one has finished (plus at most MaxLate); the
\* channel holds 1, 2, .. in order; up to WaitTime there are never more than
\* WaitTime \div loop_timer + 1 executions and, when nothing more can happen
\* before WaitTime, at least WaitTime \div (loop_timer + MaxLate + MaxWork) + 1.
\* With loop_timer 200 ms, a wait of 700 ms and delays of at most 50 ms each
\* that is 3 or 4.
C16_RepeatingCadence ==
  /\ [](kind[WName] = Repeating =>
         /\ runs[WName] <= (WaitTime \div LoopTimer) + 1
         /\ chan["qa"] = [i \in 1..runs[WName] |-> i]
         /\ Quiescent => runs[WName] >= (WaitTime \div (LoopTimer + MaxLate + MaxWork)) + 1)
  /\ [][(kind[WName] = Repeating /\ Executes /\ runs[WName] >= 1) =>
          /\ now = main_finish_time[WName] + LoopTimer
          /\ main_start_time'[WName] >= now
          /\ main_start_time'[WName] <= now + MaxLate]_vars

\* Every execution and every start was as slow as it may be: three executions.
C16_Witness ==
  /\ kind[WName] = Repeating
  /\ Quiescent
  /\ runs[WName] = (WaitTime \div (LoopTimer + MaxLate + MaxWork)) + 1
  /\ runs[WName] < (WaitTime \div LoopTimer) + 1
  /\ chan["qa"] = [i \in 1..runs[WName] |-> i]
  /\ main_finish_time[WName] > main_start_time[WName]

\* A step of a Timer's thread: repeating_start of W, whole or in part.
TimerCallback == \E i \in TimerIds : TimerFire(WName, i) \/ TimerPut(WName, i)

Target == started_time[WName] + main_runs[WName] * LoopTimer

\* C18: for a PreciseRepeatingThread with a baseline, whenever an execution
\* has finished by the time the next one is due, the Timer expires exactly at
\* started_time + main_runs * loop_timer and the next execution begins then
\* (plus at most its own MaxLate): the lateness and the duration of a run do
\* not move the later runs.
C18_PreciseNoDrift ==
  /\ [](( /\ kind[WName] = Precise
          /\ main_runs[WName] >= 1
          /\ main_finish_time[WName] <= Target)
        => deadline[WName] = Target)
  /\ [][( /\ kind[WName] = Precise
          /\ Executes
          /\ ~new_predictions_flag[WName]
          /\ main_runs[WName] >= 1
          /\ main_finish_time[WName] <= Target)
        => /\ now = Target
           /\ main_start_time'[WName] >= Target
           /\ main_start_time'[WName] <= Target + MaxLate
           /\ started_time'[WName] = started_time[WName]
           /\ main_runs'[WName] = main_runs[WName] + 1]_vars

\* The baseline run and the second run both started late and took time; the
\* third Timer still aims at three loop timers after the baseline.
C18_Witness ==
  /\ kind[WName] = Precise
  /\ main_runs[WName] = 3
  /\ started_time[WName] = MaxLate
  /\ main_start_time[WName] = started_time[WName] + 2 * LoopTimer + MaxLate
  /\ main_finish_time[WName] > main_start_time[WName]
  /\ deadline[WName] = started_time[WName] + 3 * LoopTimer

\* This step is W taking message m from its queue and handling it.
Handles(m) ==
  /\ pc[WName] = "get"
  /\ input_queue[WName] # <<>>
  /\ m = Head(input_queue[WName])
  /\ input_queue'[WName] = Tail(input_queue[WName])

\* The messages W may take next.
WHead == IF input_queue[WName] = <<>> THEN {} ELSE {Head(input_queue[WName])}

\* C19: the keys of parameters are always those the constructor made, and a
\* THREAD_UPDATE whose package is a dictionary gives every key of parameters
\* that the dictionary has the dictionary's value and leaves the others.
C19_UpdateKeepsKeys ==
  /\ [](DOMAIN parameters[WName] = DOMAIN InitParameters(kind[WName]))
  /\ [][\A m \in WHead :
          (Handles(m) /\ m.command = "THREAD_UPDATE" /\ IsDict(m.package))
          => /\ DOMAIN parameters'[WName] = DOMAIN parameters[WName]
             /\ \A key \in DOMAIN parameters[WName] :
                  parameters'[WName][key] =
                    IF key \in DOMAIN m.package.dict
                    THEN m.package.dict[key]
                    ELSE parameters[WName][key]
             /\ pc'[WName] # "dead"]_vars

\* Two updates have been handled, one of them with a key parameters lacks.
C19_Witness ==
  /\ kind[WName] = Repeating
  /\ parameters[WName]["loop_timer"] = 5
  /\ parameters[WName]["param 1"] = 8
  /\ input_queue[WName] = <<>>
  /\ IsAlive(WName)

\* C20: a message for W whose command is not in W's address book changes no
\* flag, parameter, subscription or timer, executes and publishes nothing, is
\* logged, and leaves W running and about to read its queue again.
C20_UnknownCommandDropped ==
  [][\A m \in WHead :
       (Handles(m) /\ m.receiver = <<WName>> /\ m.command \notin AddressBook(kind[WName]))
       => /\ start_flag' = start_flag
          /\ stop_flag' = stop_flag
          /\ end_flag' = end_flag
          /\ new_predictions_flag' = new_predictions_flag
          /\ parameters' = parameters
          /\ subscriptions' = subscriptions
          /\ timers' = timers
          /\ chan' = chan
          /\ runs' = runs
          /\ log'[WName] = "command"
          /\ pc'[WName] \in {"get", "check"}]_vars

\* An unknown command was the last message W handled, after an execution and
\* with a start command still waiting behind it.
C20_Witness ==
  /\ log[WName] = "command"
  /\ pc[WName] = "get"
  /\ runs[WName] >= 1
  /\ ~end_flag[WName]
  /\ InQueue(WName, "THREAD_START")

\* ----------------------------------------------------- claims C21 .. C30
\* C21: a message for the custom handler reaches it, and when a handler of a
\* MultiRunThread, RepeatingThread or PreciseRepeatingThread raises, the
\* thread is still running afterwards and about to read its queue again.
C21_HandlerFailureCaught ==
  [][\A m \in WHead :
       (/\ Handles(m)
        /\ kind[WName] \in {MultiRun, Repeating, Precise}
        /\ Dispatched(WName, m)
        /\ \/ m.command = "THEAD_HANDLE" /\ m.package.raises # "no"
           \/ m.command = "THREAD_UPDATE" /\ ~IsDict(m.package))
       => /\ IsAlive(WName)'
          /\ pc'[WName] \in {"get", "check"}]_vars

\* The end commands of the manager that wait in the queue of child c.
EndsQueued(c) ==
  Len(SelectSeq(input_queue[c],
                LAMBDA x : x.command = "THREAD_END" /\ x.sender = <<ManagerName>>))

\* C22: DESTROY_THREAD for a name that destroy_thread finds in active_threads
\* and not in destroyed_threads puts exactly one end command at the end of
\* that child's queue, adds the name to destroyed_threads and leaves it in
\* active_threads; for any other name it puts nothing and leaves both
\* collections as they were.  So while the manager has not been told to end,
\* a running child has one end command of the manager in its queue if its
\* name is in destroyed_threads and none otherwise.
C22_DestroyOnce ==
  /\ [][\A m \in ManagerHead : \A c \in ChildNames :
          (/\ ManagerHandles(m)
           /\ Route(m) = "self"
           /\ m.command = "DESTROY_THREAD"
           /\ m.package = <<c>>)
          => /\ active_threads' = GCActive(active_threads)
             /\ \A x \in ChildNames \ {c} : input_queue'[x] = input_queue[x]
             /\ pc'[ManagerName] = "get"
             /\ IF c \in ActiveNow /\ c \notin DestroyedNow
                THEN /\ input_queue'[c] =
                          Append(input_queue[c],
                                 Message(<<ManagerName>>, <<c>>, "THREAD_END", None))
                     /\ destroyed_threads' = DestroyedNow \cup {c}
                     /\ c \in DOMAIN active_threads'
                ELSE /\ input_queue'[c] = input_queue[c]
                     /\ destroyed_threads' = DestroyedNow]_vars
  /\ [](pc[ManagerName] = "get" =>
          \A c \in ChildNames :
            IsAlive(c) => EndsQueued(c) = IF c \in destroyed_threads THEN 1 ELSE 0)

\* The manager has just refused to destroy a running child a second time: the
\* child's queue holds the one end command of the first DESTROY_THREAD.
C22_Witness ==
  /\ log[ManagerName] = "already_destroyed"
  /\ pc[ManagerName] = "get"
  /\ \E c \in ChildNames :
       /\ IsAlive(c)
       /\ c \in destroyed_threads
       /\ c \in DOMAIN active_threads
       /\ EndsQueued(c) = 1

\* C23: when two channels have both been subscribed to the same endpoint of
\* an ExampleMultiRunThread before its first start command, both hold the
\* same payloads, 1, 2, .., N after N executions, each once.
C23_FanOut ==
  ( /\ ~alternating[WName]
    /\ kind[WName] = MultiRun
    /\ \A q \in Channels : <<ResultEndpoint, q>> \in hist.subEarlyAt )
  => /\ chan["qa"] = chan["qb"]
     /\ chan["qa"] = [i \in 1..runs[WName] |-> i]

C23_Witness ==
  /\ ~alternating[WName]
  /\ \A q \in Channels : <<ResultEndpoint, q>> \in hist.subEarlyAt
  /\ runs[WName] = 2
  /\ chan["qa"] = <<1, 2>>
  /\ chan["qb"] = <<1, 2>>

\* The payloads of the first n executions of an ExampleAlternatingThread at
\* an endpoint: first = TRUE at RESULT, FALSE at NOT_RESULT.
Alternation(n, first) == [i \in 1..n |-> IF i % 2 = 1 THEN first ELSE ~first]

\* C24: a channel subscribed, before the first start command, to RESULT and
\* never to NOT_RESULT holds TRUE, FALSE, .. (one value per execution); one
\* subscribed to NOT_RESULT only holds FALSE, TRUE, ..; and an execution puts
\* on a channel the payloads of the endpoints it is subscribed to and nothing
\* else.
C24_EndpointIsolation ==
  /\ [](alternating[WName] =>
          \A q \in Channels :
            /\ (<<ResultEndpoint, q>> \in hist.subEarlyAt
                  /\ q \notin subscriptions[WName][NotResultEndpoint])
               => chan[q] = Alternation(runs[WName], TRUE)
            /\ (<<NotResultEndpoint, q>> \in hist.subEarlyAt
                  /\ q \notin subscriptions[WName][ResultEndpoint])
               => chan[q] = Alternation(runs[WName], FALSE))
  /\ [][(alternating[WName] /\ Executes) =>
          \A q \in Channels :
            chan'[q] = chan[q]
              \o (IF q \in subscriptions[WName][ResultEndpoint]
                  THEN <<result[WName]>> ELSE <<>>)
              \o (IF q \in subscriptions[WName][NotResultEndpoint]
                  THEN <<~result[WName]>> ELSE <<>>)]_vars

C24_Witness ==
  /\ alternating[WName]
  /\ runs[WName] = 2
  /\ subscriptions[WName][ResultEndpoint] = {"qa"}
  /\ subscriptions[WName][NotResultEndpoint] = {"qb"}
  /\ chan["qa"] = <<TRUE, FALSE>>
  /\ chan["qb"] = <<FALSE, TRUE>>

\* C25: a reply addressed to the sender path with which a child's message
\* left the manager, taken by the manager from its input queue while that
\* child is in active_threads, is put on the child's input queue.
C25_ReplyReachesChild ==
  [][\A m \in ManagerHead : \A c \in ChildNames :
       (/\ ManagerHandles(m)
        /\ m.command = "REPLY"
        /\ m.receiver[Len(m.receiver)] = c
        /\ c \in ActiveNow)
       => /\ Len(input_queue'[c]) = Len(input_queue[c]) + 1
          /\ input_queue'[c][Len(input_queue'[c])].command = "REPLY"]_vars

\* C26: when a RepeatingThread or PreciseRepeatingThread has handled an end
\* command, none of its Timers is waiting to expire, and from then on no
\* repeat message is put on its input queue.
C26_EndCancelsTimer ==
  /\ [][\A m \in WHead :
          (/\ Handles(m)
           /\ kind[WName] \in {Repeating, Precise}
           /\ Dispatched(WName, m)
           /\ m.command = "THREAD_END")
          => \A i \in DOMAIN timers'[WName] : timers'[WName][i] \notin {"pending", "set"}]_vars
  /\ [][(kind[WName] \in {Repeating, Precise} /\ end_flag[WName] /\ ~raised[WName])
          => Len(input_queue'[WName]) <= Len(input_queue[WName])
             \/ input_queue'[WName][Len(input_queue'[WName])].command # "THREAD_REPEAT"]_vars

\* The deferred self-starts of W that are under way: Timers waiting to expire
\* or inside repeating_start, and repeat messages waiting in the queue.
RepeatsOutstanding ==
  Len(Outstanding(timers[WName]))
    + Len(SelectSeq(input_queue[WName], LAMBDA x : x.command = "THREAD_REPEAT"))

\* C27: a RepeatingThread or PreciseRepeatingThread never has more than one
\* deferred self-start under way, Timers and queued repeat messages together.
C27_OneSelfStart ==
  kind[WName] \in {Repeating, Precise} => RepeatsOutstanding <= 1

\* C28: an execution of a PreciseRepeatingThread whose repeat_time comes out
\* as 0 (the Timer is due the moment main has finished) is logged as a
\* timeout and nothing more: the end flag stays clear, the Timer is started,
\* main_runs is counted up and the thread goes on to read its queue; it is
\* never ended by an execution that did not raise.
C28_OverrunContinues ==
  /\ [][(/\ kind[WName] = Precise
         /\ Executes
         /\ deadline'[WName] = main_finish_time'[WName])
        => /\ log'[WName] = "timeout"
           /\ end_flag'[WName] = end_flag[WName]
           /\ TimerWaits(WName)'
           /\ main_runs'[WName] = (IF new_predictions_flag[WName] THEN 0 ELSE main_runs[WName]) + 1
           /\ pc'[WName] = "get"]_vars
  /\ [](kind[WName] = Precise => ~end_flag[WName])

\* Main took as long as the loop timer: the Timer of the first execution was
\* due at once, has expired, and the second execution has taken place.
C28_Witness ==
  /\ kind[WName] = Precise
  /\ log[WName] = "timeout"
  /\ runs[WName] = 2
  /\ main_runs[WName] = 2
  /\ ~end_flag[WName]
  /\ IsAlive(WName)

\* Message m carries a new loop timer under command c.
NewLoopTimer(m, c) ==
  /\ m.receiver = <<WName>>
  /\ m.command = c
  /\ IsDict(m.package)
  /\ "loop_timer" \in DOMAIN m.package.dict

\* C29: in a PreciseRepeatingThread, SET_LOOP_TIMER with a dictionary gives
\* loop_timer the new value and raises new_predictions_flag, which stays up
\* until the next execution; an execution that finds it up takes its own
\* start time as started_time and counts main_runs from 0, so its Timer is due
\* one loop timer after its start (or at once, if main took longer); one that
\* finds it down keeps started_time and counts main_runs on.  THREAD_UPDATE
\* with a new loop_timer changes the parameter only: the flag, started_time
\* and main_runs stay as they are.
C29_SetLoopTimerResets ==
  /\ [][\A m \in WHead :
          (Handles(m) /\ kind[WName] = Precise /\ NewLoopTimer(m, "SET_LOOP_TIMER"))
          => /\ parameters'[WName]["loop_timer"] = m.package.dict["loop_timer"]
             /\ new_predictions_flag'[WName]
             /\ started_time' = started_time
             /\ main_runs' = main_runs]_vars
  /\ [][\A m \in WHead :
          (Handles(m) /\ kind[WName] = Precise /\ NewLoopTimer(m, "THREAD_UPDATE"))
          => /\ parameters'[WName]["loop_timer"] = m.package.dict["loop_timer"]
             /\ new_predictions_flag' = new_predictions_flag
             /\ started_time' = started_time
             /\ main_runs' = main_runs]_vars
  /\ [][(kind[WName] = Precise /\ new_predictions_flag[WName] /\ ~Executes)
          => new_predictions_flag'[WName]]_vars
  /\ [][(kind[WName] = Precise /\ Executes) =>
          /\ ~new_predictions_flag'[WName]
          /\ IF new_predictions_flag[WName]
             THEN /\ started_time'[WName] = main_start_time'[WName]
                  /\ main_runs'[WName] = 1
                  /\ deadline'[WName] =
                       Max(main_finish_time'[WName],
                           main_start_time'[WName] + parameters[WName]["loop_timer"])
             ELSE /\ started_time'[WName] = started_time[WName]
                  /\ main_runs'[WName] = main_runs[WName] + 1]_vars

\* The second execution came after a SET_LOOP_TIMER: it is the new baseline.
C29_Witness ==
  /\ kind[WName] = Precise
  /\ runs[WName] = 2
  /\ hist.startsHandled = 1
  /\ parameters[WName]["loop_timer"] = 2
  /\ main_runs[WName] = 1
  /\ started_time[WName] = main_start_time[WName]
  /\ started_time[WName] > 0

\* C30: in a PreciseRepeatingThread, when run() is at the top of its loop with
\* the end flag clear, the start flag set and a message waiting in the input
\* queue, its next step clears the flag and enters _control_loop, and no
\* message is taken from the queue until _control_loop has been left: by a
\* run of main (which may raise), or at once when the stop flag is up.
C30_ControlLoopBeforeGet ==
  [][kind[WName] = Precise =>
       /\ (/\ pc[WName] = "check"
           /\ ~end_flag[WName]
           /\ start_flag[WName]
           /\ input_queue[WName] # <<>>)
            => /\ Len(input_queue'[WName]) >= Len(input_queue[WName])
               /\ Head(input_queue'[WName]) = Head(input_queue[WName])
               /\ pc'[WName] \in {"check", "loop"}
               /\ pc'[WName] = "loop" => ~start_flag'[WName]
       /\ pc[WName] = "loop"
            => /\ Len(input_queue'[WName]) >= Len(input_queue[WName])
               /\ input_queue[WName] # <<>>
                    => Head(input_queue'[WName]) = Head(input_queue[WName])
               /\ pc'[WName] \in {"loop", "get"}
               /\ pc'[WName] = "get" => (stop_flag[WName] \/ Executes)
       /\ Len(input_queue'[WName]) < Len(input_queue[WName]) => pc[WName] = "get"]_vars

\* The start message was handled with a second message already waiting, the
\* control loop has run once, and that message is still the head of the queue.
C30_Witness ==
  /\ kind[WName] = Precise
  /\ hist.startedWithQueue
  /\ hist.startsHandled = 1
  /\ runs[WName] = 1
  /\ pc[WName] = "get"
  /\ Len(input_queue[WName]) = sent - 1
  /\ input_queue[WName] # <<>>
  /\ Head(input_queue[WName]).command = "THREAD_STOP"

\* ============================================== ThreadManager, odd messages
\* The manager with one MultiRunThread child X: its owner first sends the
\* thread types and NEW_THREAD for X, then messages for X, for a child that
\* does not exist, with the manager's name behind other names in the receiver,
\* for nobody the manager knows, and commands with packages that lack what
\* the handler reads.  Messages for children carry the number of the put.
RoutingSetup ==
  << Message(<<OwnerName>>, <<ManagerName>>, "SET_THREAD_TYPES", TypesPackage),
     Message(<<OwnerName>>, <<ManagerName>>, "NEW_THREAD", <<"X", "multi">>) >>

\* A SET_THREAD_TYPES package that is not a dictionary.
NoMapping == [i \in {"not a dict"} |-> "multi"]

RoutingInputs(n) ==
  IF n < Len(RoutingSetup) THEN {RoutingSetup[n + 1]}
  ELSE {Message(<<OwnerName>>, <<ManagerName, c>>, "THREAD_START", <<n>>) : c \in ChildNames}
         \cup {Message(<<OwnerName>>, <<OwnerName, "X", ManagerName>>, "THREAD_START", <<n>>)}
         \cup {Message(<<OwnerName>>, <<OwnerName>>, "NOTE", None)}
         \cup {Message(<<OwnerName>>, <<ManagerName>>, "DESTROY_THREAD", p) : p \in {<<"X">>, <<>>}}
         \cup {Message(<<OwnerName>>, <<ManagerName>>, "NEW_THREAD", <<"Y">>)}
         \cup {Message(<<OwnerName>>, <<ManagerName>>, "THREAD_UPDATE", None)}
         \cup {Message(<<OwnerName>>, <<ManagerName>>, "SET_THREAD_TYPES", p) :
                 p \in {[i \in {"single"} |-> Repeating], NoMapping}}

RoutingPut(m) == m \in RoutingInputs(sent) /\ ManagerPut(m)

RoutingManagerStep ==
  \/ ManagerBase
  \/ ManagerCreate
  \/ ManagerSetTypes
  \/ ManagerDestroy
  \/ ManagerToChild
  \/ ManagerForward

RoutingChildStep ==
  \/ \E c \in ChildNames : Get(c)
  \/ \E c \in ChildNames, emit \in BOOLEAN : ControlLoop(c, TRUE, emit)

RoutingMessages == UNION {RoutingInputs(n) : n \in 0..MaxManagerSend}

NextRouting ==
  \/ \E m \in RoutingMessages : RoutingPut(m)
  \/ RoutingManagerStep
  \/ RoutingChildStep

SpecRouting == InitManager /\ [][NextRouting]_vars

\* ================================================== ThreadManager, shutdown
\* The manager is given its thread types and a first child X of any of them;
\* then its owner starts or destroys children, creates Y, or ends the manager.
ShutdownInputs(n) ==
  IF n = 0 THEN {Message(<<OwnerName>>, <<ManagerName>>, "SET_THREAD_TYPES", TypesPackage)}
  ELSE IF n = 1
  THEN {Message(<<OwnerName>>, <<ManagerName>>, "NEW_THREAD", <<"X", i>>) : i \in TypeIds}
  ELSE {Message(<<OwnerName>>, <<ManagerName, c>>, "THREAD_START", None) : c \in ChildNames}
         \cup {Message(<<OwnerName>>, <<ManagerName>>, "DESTROY_THREAD", <<"X">>),
               Message(<<OwnerName>>, <<ManagerName>>, "NEW_THREAD", <<"Y", "multi">>),
               Message(<<OwnerName>>, <<ManagerName>>, "THREAD_END", None)}

ShutdownMessages == UNION {ShutdownInputs(n) : n \in 0..MaxManagerSend}

ShutdownPut(m) == m \in ShutdownInputs(sent) /\ ManagerPut(m)

ShutdownManagerStep ==
  \/ ManagerThreadEnd
  \/ ManagerEndWait
  \/ ManagerCreate
  \/ ManagerSetTypes
  \/ ManagerDestroy
  \/ ManagerToChild
  \/ ManagerForward

\* What the thread of child c does.
ChildRun(c) ==
  \/ Get(c)
  \/ \E emit \in BOOLEAN : ControlLoop(c, TRUE, emit)

NextShutdown ==
  \/ \E m \in ShutdownMessages : ShutdownPut(m)
  \/ ShutdownManagerStep
  \/ \E c \in ChildNames : ChildRun(c)
  \/ \E c \in ChildNames, i \in TimerIds : TimerFire(c, i)

\* The thread scheduler eventually runs the manager and every child that can
\* take a step; a Timer may stay pending.
SpecShutdown ==
  /\ InitManager
  /\ [][NextShutdown]_vars
  /\ WF_vars(ShutdownManagerStep)
  /\ \A c \in ChildNames : WF_vars(ChildRun(c))

\* ============================================================ construction
\* SimpleThread.__init__ ends with self.start(): run() goes in the new thread
\* while the constructing thread is still in the rest of the subclass
\* constructor.  One RepeatingThread W, observed from the moment
\* SimpleThread.__init__ has returned; its queue is the one it was given, so
\* messages can be in it at any time.
InitConstruct ==
  /\ InitObjects([t \in Threads |-> IF t = WName THEN Repeating ELSE "none"],
                 [t \in Threads |-> 0])
  /\ alternating = [t \in Threads |-> FALSE]
  /\ owner = [t \in Threads |-> OwnerName]
  /\ InitManagerIdle

ConstructInputs ==
  {Message(<<OwnerName>>, <<WName>>, c, None) :
     c \in {"THREAD_START", "THREAD_STOP", "THREAD_END", "THREAD_REPEAT"}}

\* The constructing thread runs the next statement of RepeatingThread.__init__.
Construct(t) ==
  /\ built[t] < Complete(kind[t])
  /\ built' = [built EXCEPT ![t] = @ + 1]
  /\ parameters' =
       [parameters EXCEPT ![t] =
          IF InitStatements(kind[t])[built[t] + 1] = "loop_timer"
          THEN [key \in (DOMAIN @) \cup {"loop_timer"} |->
                  IF key = "loop_timer" THEN 1 ELSE @[key]]
          ELSE @]
  /\ UNCHANGED <<kind, pc, input_queue, start_flag, stop_flag, end_flag, timers, runs,
                 raised, subscriptions, chan, owner, log, sent, hist>>
  /\ UNCHANGED managerVars
  /\ UNCHANGED exampleVars
  /\ UNCHANGED <<preciseVars, clockVars>>

\* run() of a RepeatingThread takes a message before the constructor is done.
\* THREAD_REPEAT is in the address book only after the second statement (a
\* KeyError before, which _message_handle logs); _thread_start and
\* _thread_stop set their flags and then read self.repeat_timer, which the
\* last statement creates: the AttributeError leaves _message_handle and run().
EarlyGet(t) ==
  /\ kind[t] = Repeating
  /\ pc[t] = "get"
  /\ input_queue[t] # <<>>
  /\ built[t] < Complete(kind[t])
  /\ LET m == Head(input_queue[t])
         known == m.command # "THREAD_REPEAT" \/ Has(t, "THREAD_REPEAT")
         dies == m.command \in {"THREAD_START", "THREAD_STOP"} /\ ~Has(t, "repeat_timer")
         s == known /\ m.command \in {"THREAD_START", "THREAD_REPEAT"}
         e == end_flag[t] \/ m.command = "THREAD_END"
     IN /\ input_queue' = [input_queue EXCEPT ![t] = Tail(@)]
        /\ log' = [log EXCEPT ![t] = IF known THEN "" ELSE "command"]
        /\ stop_flag' = [stop_flag EXCEPT ![t] =
                           IF m.command = "THREAD_STOP" THEN TRUE
                           ELSE IF m.command = "THREAD_START" THEN FALSE ELSE @]
        /\ end_flag' = [end_flag EXCEPT ![t] = e]
        /\ start_flag' = [start_flag EXCEPT ![t] =
                            IF dies THEN @ \/ m.command = "THREAD_START" ELSE FALSE]
        /\ pc' = [pc EXCEPT ![t] =
                    IF dies THEN "dead"
                    ELSE IF s THEN "loop" ELSE IF RunContinues(e) THEN "get" ELSE "done"]
        /\ hist' = HistGet(t, m)
  /\ UNCHANGED <<kind, timers, runs, raised, subscriptions, chan, owner, sent>>
  /\ UNCHANGED managerVars
  /\ UNCHANGED exampleVars
  /\ UNCHANGED <<parameters, preciseVars, clockVars, built>>

\* run() takes a message of a thread whose constructor has returned.
LateGet(t) == built[t] = Complete(kind[t]) /\ Get(t)

NextConstruct ==
  \/ \E m \in ConstructInputs : Put(m)
  \/ Construct(WName)
  \/ EarlyGet(WName)
  \/ LateGet(WName)
  \/ ControlLoop(WName, TRUE, FALSE)
  \/ \E i \in TimerIds : TimerFire(WName, i)

SpecConstruct == InitConstruct /\ [][NextConstruct]_vars

\* ========================================================= claims C31 .. C40
GenericLoop == {SingleRun, MultiRun, Repeating}

\* C31: a worker of a class that keeps SimpleThread.run (SingleRunThread,
\* MultiRunThread, RepeatingThread) whose main has raised has its end flag set
\* and has left run(), and no later step executes main.
C31_RaiseEndsWorker ==
  /\ [](kind[WName] \in GenericLoop /\ raised[WName]
          => end_flag[WName] /\ ~IsAlive(WName))
  /\ [][(kind[WName] \in GenericLoop /\ raised[WName])
          => runs'[WName] = runs[WName]]_vars

\* A RepeatingThread whose second execution, begun by its own timer, raised,
\* with a message left unread in its queue.
C31_Witness ==
  /\ kind[WName] = Repeating
  /\ raised[WName]
  /\ runs[WName] = 2
  /\ hist.startsHandled = 1
  /\ input_queue[WName] # <<>>
  /\ end_flag[WName]
  /\ pc[WName] = "done"

\* C32: when the manager handles a message whose receiver does not begin with
\* the manager's name, no child's input queue receives it, wherever else in
\* the receiver the manager's name stands: the message goes up through the
\* output queue or is dropped.
C32_LeadingSegmentOnly ==
  [][\A m \in ManagerHead :
       (ManagerHandles(m) /\ m.receiver # <<>> /\ Head(m.receiver) # ManagerName)
         => /\ \A c \in ChildNames : input_queue'[c] = input_queue[c]
            /\ Len(output_queue') =
                 Len(output_queue)
                   + (IF ForwardError(m.sender, DestroyedNow) = "" THEN 1 ELSE 0)]_vars

\* The cases in which the routing of _message_handle drops message m: it is
\* for a child (the manager's name leads the receiver) that is not in
\* active_threads, or it is for nobody in the manager's subtree and its sender
\* is too short or names a thread in destroyed_threads.
ToUnknownChild(m) ==
  /\ Len(m.receiver) >= 2
  /\ m.receiver[1] = ManagerName
  /\ m.receiver[2] \notin ActiveNow

FromNowhere(m) == ManagerName \notin Range(m.receiver) /\ Len(m.sender) <= 1

FromDestroyed(m) ==
  /\ ManagerName \notin Range(m.receiver)
  /\ Len(m.sender) > 1
  /\ m.sender[2] \in DestroyedNow

Flags(t) == <<start_flag[t], stop_flag[t], end_flag[t]>>

\* C33: when the manager handles a message that its routing drops, no queue
\* receives a message, and thread_types, the flags of the manager and of every
\* child, and every child's input queue are as before.
C33_DropTouchesNothing ==
  [][\A m \in ManagerHead :
       (ManagerHandles(m) /\ (ToUnknownChild(m) \/ FromNowhere(m) \/ FromDestroyed(m)))
         => /\ output_queue' = output_queue
            /\ input_queue'[ManagerName] = Tail(input_queue[ManagerName])
            /\ \A c \in ChildNames : input_queue'[c] = input_queue[c]
            /\ thread_types' = thread_types
            /\ \A t \in Threads : Flags(t)' = Flags(t)]_vars

\* The manager has just dropped the message that the running child X emitted
\* after X was marked destroyed.
C33_Witness ==
  /\ log[ManagerName] = "destroyed_sender"
  /\ "X" \in destroyed_threads
  /\ IsAlive("X")
  /\ runs["X"] = 1
  /\ output_queue = <<>>
  /\ input_queue[ManagerName] = <<>>

\* C34: a name leaves active_threads, or comes to stand for a new thread
\* object there, only in a step in which the thread it stood for is not alive,
\* and after that step the name is not in destroyed_threads; the entry of a
\* thread that is alive is left as it is by every step.
C34_CollectOnlyStopped ==
  [][\A c \in DOMAIN active_threads :
       /\ (c \notin DOMAIN active_threads' \/ active_threads'[c] # active_threads[c])
            => ~IsAlive(c) /\ c \notin destroyed_threads'
       /\ IsAlive(c) => (c \in DOMAIN active_threads' /\ active_threads'[c] = active_threads[c])]_vars

\* X was destroyed, has stopped and has been collected (its name is free
\* again) while Y, created after it, is still in active_threads and alive.
C34_Witness ==
  /\ kind["X"] = MultiRun
  /\ created["X"] = 1
  /\ ~IsAlive("X")
  /\ "X" \notin DOMAIN active_threads
  /\ "X" \notin destroyed_threads
  /\ log["X"] = ""
  /\ "Y" \in DOMAIN active_threads
  /\ IsAlive("Y")
  /\ end_flag["X"]

\* C35: every name in destroyed_threads is a key of active_threads.
C35_DestroyedAreActive == destroyed_threads \subseteq DOMAIN active_threads

\* The manager is in _thread_end: it marked both its children, X has stopped
\* and has been collected, Y is still marked and active.
C35_Witness ==
  /\ pc[ManagerName] = "ending"
  /\ created["X"] = 1
  /\ DOMAIN active_threads = {"Y"}
  /\ destroyed_threads = {"Y"}

\* C36: under a fair scheduler, a manager that has taken its own THREAD_END
\* from its queue eventually sets its end flag and is no longer alive,
\* whatever its children were doing when the command arrived.
C36_ManagerEndTerminates ==
  (pc[ManagerName] = "ending") ~> (end_flag[ManagerName] /\ ~IsAlive(ManagerName))

\* The manager has ended after a shutdown that found X, a RepeatingThread,
\* with an execution done and its Timer still pending.
C36_Witness ==
  /\ pc[ManagerName] = "done"
  /\ end_flag[ManagerName]
  /\ active_threads = <<>>
  /\ kind["X"] = Repeating
  /\ runs["X"] = 1
  /\ timers["X"] = <<"pending">>
  /\ pc["X"] = "done"

\* The numbered messages for child c, in the order in which they will be
\* taken: those already in c's queue, then those in the manager's queue.
Numbered(q, r) == SelectSeq(q, LAMBDA m : m.receiver = r /\ m.command = "THREAD_START")

Underway(c) ==
  Numbered(input_queue[c], <<c>>) \o Numbered(input_queue[ManagerName], <<ManagerName, c>>)

InPutOrder(s) == \A i, j \in DOMAIN s : i < j => s[i].package[1] < s[j].package[1]

\* C37: the messages for one child are in the child's queue, and behind them
\* in the manager's queue, in the order in which they were put on the
\* manager's queue; the child takes the head of its queue and nothing else,
\* so every message still under way was put after the one it handles.
C37_FifoThroughManager ==
  /\ [](\A c \in ChildNames : InPutOrder(Underway(c)))
  /\ [][\A c \in ChildNames :
          (created'[c] = created[c] /\ Len(input_queue'[c]) < Len(input_queue[c]))
            => /\ pc[c] = "get"
               /\ input_queue'[c] = Tail(input_queue[c])
               /\ LET m == Head(input_queue[c])
                  IN (m.command = "THREAD_START" /\ m.receiver = <<c>>)
                       => /\ Dispatched(c, m)
                          /\ pc'[c] = "loop"
                          /\ \A i \in DOMAIN Underway(c)' :
                               Underway(c)'[i].package[1] > m.package[1]]_vars

\* X is executing on the first of two numbered messages; the second is the
\* head of its queue.
C37_Witness ==
  /\ pc["X"] = "loop"
  /\ runs["X"] = 0
  /\ Len(input_queue["X"]) = 1
  /\ Head(input_queue["X"]).receiver = <<"X">>
  /\ Head(input_queue["X"]).package = <<MaxManagerSend - 1>>
  /\ input_queue[ManagerName] = <<>>

\* C38: SET_THREAD_TYPES with a dictionary leaves thread_types with the
\* package's entries, as the package has them, and with every other entry it
\* had before; with a package that is no dictionary thread_types stays as it
\* is.  In both cases set_thread_types leaves active_threads and
\* destroyed_threads as the garbage collection before it left them.
C38_SetTypesMerges ==
  [][\A m \in ManagerHead :
       (ManagerHandles(m) /\ m.receiver = <<ManagerName>> /\ m.command = "SET_THREAD_TYPES")
         => /\ IF IsMapping(m.package)
               THEN /\ DOMAIN thread_types' = (DOMAIN thread_types) \cup (DOMAIN m.package)
                    /\ \A k \in DOMAIN m.package : thread_types'[k] = m.package[k]
                    /\ \A k \in (DOMAIN thread_types) \ (DOMAIN m.package) :
                         thread_types'[k] = thread_types[k]
               ELSE thread_types' = thread_types
            /\ active_threads' = GCActive(active_threads)
            /\ destroyed_threads' = DestroyedNow]_vars

\* A second SET_THREAD_TYPES has given "single" another class and kept the
\* two other entries, with child X in active_threads throughout.
C38_Witness ==
  /\ DOMAIN thread_types = TypeIds
  /\ thread_types["single"] = Repeating
  /\ thread_types["multi"] = MultiRun
  /\ DOMAIN active_threads = {"X"}
  /\ log[ManagerName] = ""

\* Commands whose package lacks what the handler reads: THREAD_UPDATE with a
\* package that is no dictionary, NEW_THREAD without a thread name or type,
\* DESTROY_THREAD without a thread name.
Malformed(m) ==
  /\ m.receiver = <<ManagerName>>
  /\ \/ m.command = "THREAD_UPDATE" /\ ~IsDict(m.package)
     \/ m.command = "NEW_THREAD" /\ Len(m.package) # 2
     \/ m.command = "DESTROY_THREAD" /\ Len(m.package) # 1

\* C39: when a thread (here the manager, which has the handlers of all three
\* commands) handles a command with such a package, its parameters,
\* thread_types, the threads it has created and destroyed_threads stay as
\* they are, and it stays alive to take the next message.
C39_MalformedPayloadHarmless ==
  [][\A m \in ManagerHead :
       (ManagerHandles(m) /\ Malformed(m))
         => /\ parameters' = parameters
            /\ thread_types' = thread_types
            /\ created' = created
            /\ active_threads' = GCActive(active_threads)
            /\ destroyed_threads' = DestroyedNow
            /\ IsAlive(ManagerName)'
            /\ pc'[ManagerName] = "get"]_vars

\* C40: a thread takes a message from its input queue only when its
\* constructor has returned: every parameter, address-book entry and
\* attribute its class adds exists when the message is handled.
C40_NoDispatchBeforeBuilt ==
  [][Len(input_queue'[WName]) < Len(input_queue[WName])
       => built[WName] = Complete(kind[WName])]_vars

====
